---- MODULE Spec2Model ----
(***************************************************************************)
(* Payment gateway backend: the API handlers of backend/src/index.js, the  *)
(* three BullMQ workers of backend/src/worker.js and the relational schema *)
(* of backend/init.sql.                                                    *)
(*                                                                         *)
(* Every `await` of a handler is a suspension point, so a handler is a     *)
(* sequence of steps (one action per stretch between two awaits that touch *)
(* the store or a queue); the rows it has read are kept in the request's   *)
(* record, as the handler keeps them in local variables.                   *)
(*                                                                         *)
(* Random identifiers (pay_..., rfnd_..., UUIDs) are modelled by the       *)
(* position of the row in its table: a fresh id never collides.            *)
(***************************************************************************)
EXTENDS Integers, Sequences, FiniteSets, TLC

VARIABLES
    merchants,         \* merchants table: merchant id -> [api_key, api_secret, webhook_url, webhook_secret]
    orders,            \* orders table, a sequence of rows; the id is the position
    payments,          \* payments table
    refunds,           \* refunds table
    webhook_logs,      \* webhook_logs table
    idempotency_keys,  \* idempotency_keys table: a set of rows, unique on (key, merchant_id)
    paymentQueue,      \* BullMQ queue 'payment-processing': a sequence of jobs
    refundQueue,       \* BullMQ queue 'refund-processing'
    webhookQueue,      \* BullMQ queue 'webhook-delivery'
    reqs,              \* API requests being handled: slot -> the handler's position and locals
    resps,             \* the responses sent so far, oldest first
    now,               \* the wall clock, in hours
    posts,             \* HTTP POSTs sent to merchant endpoints, oldest first
    env                \* process.env: TEST_MODE, TEST_PAYMENT_SUCCESS, WEBHOOK_RETRY_INTERVALS_TEST

vars == <<merchants, orders, payments, refunds, webhook_logs, idempotency_keys,
          paymentQueue, refundQueue, webhookQueue, reqs, resps, now, posts, env>>

store == <<merchants, orders, payments, refunds, webhook_logs, idempotency_keys>>
queues == <<paymentQueue, refundQueue, webhookQueue>>

-----------------------------------------------------------------------------
(* Bounds of the model *)

MaxAmount == 2      \* order amounts are 1..MaxAmount
MaxInflight == 2    \* API requests handled at the same time
MaxRefundReqs == 3  \* create-refund requests per behaviour
MaxCaptureReqs == 2 \* capture requests per behaviour
MaxPaymentReqs == 3 \* create-payment requests per behaviour
MaxTicks == 1       \* the clock stops after MaxTicks steps of 24 hours
MaxUrlPuts == 2     \* PUT /merchants/webhook requests per behaviour
MaxTestReqs == 1    \* test-webhook requests per behaviour
MaxRetryReqs == 1   \* manual webhook retries per behaviour
MaxGetReqs == 1     \* GET requests per behaviour, for each of order, payment, refund
MaxAccessReqs == 3  \* requests per behaviour of the merchant-scoping slice
MaxSettleReqs == 2  \* create-payment requests per behaviour of the settlement slice
MaxCreateReqs == 2  \* requests per behaviour of the payment-creation slice
MaxListReqs == 2    \* list requests per behaviour of the pagination slice
MaxAuthReqs == 2    \* requests per behaviour of the authentication slice

-----------------------------------------------------------------------------
(* Values *)

NULL == "null"
MerchantIds == {"mA", "mB"}
Slots == 1 .. MaxInflight

\* SQL: SELECT COALESCE(SUM(amount), 0) FROM refunds WHERE payment_id = $1
RECURSIVE SumRefundsUpTo(_, _, _)
SumRefundsUpTo(rs, pid, n) ==
    IF n = 0 THEN 0
    ELSE SumRefundsUpTo(rs, pid, n - 1)
         + (IF rs[n].payment_id = pid THEN rs[n].amount ELSE 0)

TotalRefunded(pid) == SumRefundsUpTo(refunds, pid, Len(refunds))

idle == [op |-> "none", pc |-> "idle"]

\* res.status(code).json(body): the response is sent and the handler ends
Respond(s, r) ==
    /\ reqs' = [reqs EXCEPT ![s] = idle]
    /\ resps' = Append(resps, r)

\* Queue.add(..., { attempts: 3, ... }) of both routes
QueueAttempts == 3

\* A job as BullMQ keeps it: Queue.add(name, data, opts)
NewJob(data, attempts, delay) ==
    [data |-> data, state |-> IF delay > 0 THEN "delayed" ELSE "waiting",
     delay |-> delay, attemptsMade |-> 0, attempts |-> attempts]

\* BullMQ Worker without a `concurrency` option: one job of the queue at a time
WorkerFree(q) == \A j \in DOMAIN q : q[j].state # "active"

\* The worker takes a waiting job
Take(q, j, local) == [q EXCEPT ![j] = [@ EXCEPT !.state = "active"] @@ [local |-> local]]

\* a job that is handed out again after its processor returned
Requeued(q, j) ==
    [q EXCEPT ![j] = [data |-> @.data, state |-> "waiting", delay |-> 0,
                      attemptsMade |-> @.attemptsMade + 1, attempts |-> @.attempts]]

\* The processor returned: the job is completed
Complete(q, j) ==
    [q EXCEPT ![j] = [data |-> @.data, state |-> "completed", delay |-> 0,
                      attemptsMade |-> @.attemptsMade + 1, attempts |-> @.attempts]]

RECURSIVE Pow2(_)
Pow2(n) == IF n = 0 THEN 1 ELSE 2 * Pow2(n - 1)

\* backoff: { type: 'exponential', delay: 1000 }: 1000 * 2^(attemptsMade - 1) ms
Backoff(attemptsMade) == 1000 * Pow2(attemptsMade - 1)

\* The processor threw: BullMQ retries the job while attemptsMade < opts.attempts
Throw(q, j) ==
    LET made == q[j].attemptsMade + 1
    IN  [q EXCEPT ![j] = [data |-> @.data,
                          state |-> IF made < @.attempts THEN "delayed" ELSE "failed",
                          delay |-> IF made < @.attempts THEN Backoff(made) ELSE 0,
                          attemptsMade |-> made, attempts |-> @.attempts]]

\* A delayed job's delay has passed: it becomes waiting
Promoted(q, j) == [q EXCEPT ![j] = [@ EXCEPT !.state = "waiting", !.delay = 0]]

-----------------------------------------------------------------------------
(* Rows *)

OrderRow(m, amount) ==
    [merchant_id |-> m, amount |-> amount, currency |-> "INR", status |-> "created"]

\* an order created with `currency` in the request body
OrderIn(m, amount, currency) == [OrderRow(m, amount) EXCEPT !.currency = currency]

\* card_last4: << >> is SQL NULL
PaymentRow(o, m, amount, currency, method, vpa, last4, network) ==
    [order_id |-> o, merchant_id |-> m, amount |-> amount, currency |-> currency,
     method |-> method, vpa |-> vpa, card_last4 |-> last4, card_network |-> network,
     status |-> "pending", captured |-> FALSE, error_code |-> NULL,
     error_description |-> NULL]

\* a UPI payment of order o, as POST /api/v1/payments inserts it
UpiPayment(o, m, amount) == PaymentRow(o, m, amount, "INR", "upi", "v1", << >>, NULL)

\* processed_at: -1 is SQL NULL
RefundRow(p, m, amount) ==
    [payment_id |-> p, merchant_id |-> m, amount |-> amount, status |-> "pending",
     processed_at |-> -1]

\* the same SELECT without `AND merchant_id = $2`
OwnedByAnyone(table, id, m) == id \in DOMAIN table

\* SELECT * FROM <table> WHERE id = $1 AND merchant_id = $2: TRUE when a row is returned
Owned(table, id, m) == id \in DOMAIN table /\ table[id].merchant_id = m

\* res.status(status).json({error: {code, description}}); target is the id the
\* request addressed (0 when it addressed none)
Error(op, m, target, status, code, description) ==
    [op |-> op, m |-> m, status |-> status, code |-> code, description |-> description,
     id |-> 0, target |-> target]

Started(op) ==
    Cardinality({i \in DOMAIN resps : resps[i].op = op})
    + Cardinality({s \in Slots : reqs[s].op = op})

\* the requests that have arrived
Arrived == Len(resps) + Cardinality({s \in Slots : reqs[s].pc # "idle"})

\* a slot that handles no request; the lowest one takes the next request
Idle(s) == reqs[s].pc = "idle" /\ \A t \in Slots : t < s => reqs[t].pc # "idle"

\* Express hands a request to its handler: a request of an authenticated merchant
\* arrives, or authenticateMerchant has called next() for the request of the slot
Free(s) == Idle(s) \/ reqs[s].pc = "next"

-----------------------------------------------------------------------------
(* POST /api/v1/payments/:paymentId/refunds *)

\* the amount check with `amount >= availableAmount` as the rejection
RefundAmountBelow(amount, paymentAmount, totalRefunded) ==
    /\ amount # 0 /\ amount > 0
    /\ amount < paymentAmount - totalRefunded

\* the status check missing: any payment of the caller is refundable
RefundableAnyStatus(payment) == TRUE

\* if (payment.status !== 'success'): 400
Refundable(payment) == payment.status = "success"

\* the refund amount check, on the sum the handler has read
RefundAmountOk(amount, paymentAmount, totalRefunded) ==
    /\ amount # 0 /\ amount > 0
    /\ amount <= paymentAmount - totalRefunded

\* authenticate, SELECT the payment, check its status
CreateRefundGetPayment(s, m, pid, amount) ==
    /\ Free(s)
    /\ Started("refund") < MaxRefundReqs
    /\ IF ~Owned(payments, pid, m)
       THEN Respond(s, Error("refund", m, pid, 404, "NOT_FOUND", "Payment not found"))
       ELSE IF ~Refundable(payments[pid])
       THEN Respond(s, Error("refund", m, pid, 400, "BAD_REQUEST_ERROR",
                             "Only successful payments can be refunded"))
       ELSE /\ reqs' = [reqs EXCEPT ![s] =
                   [op |-> "refund", pc |-> "sum", m |-> m, pid |-> pid,
                    amount |-> amount, payment |-> payments[pid]]]
            /\ UNCHANGED resps
    /\ UNCHANGED <<store, queues, now, posts, env>>

\* SELECT COALESCE(SUM(amount), 0), then validate the amount
CreateRefundSum(s) ==
    /\ reqs[s].op = "refund" /\ reqs[s].pc = "sum"
    /\ LET r == reqs[s]
           totalRefunded == TotalRefunded(r.pid)
       IN  IF RefundAmountOk(r.amount, r.payment.amount, totalRefunded)
           THEN /\ reqs' = [reqs EXCEPT ![s].pc = "insert"]
                /\ UNCHANGED resps
           ELSE Respond(s, Error("refund", r.m, r.pid, 400, "BAD_REQUEST_ERROR",
                                 IF r.amount <= 0 THEN "Invalid refund amount"
                                 ELSE "Refund amount exceeds available amount"))
    /\ UNCHANGED <<store, queues, now, posts, env>>

\* INSERT INTO refunds
CreateRefundInsert(s) ==
    /\ reqs[s].op = "refund" /\ reqs[s].pc = "insert"
    /\ LET r == reqs[s]
       IN  /\ refunds' = Append(refunds, RefundRow(r.pid, r.m, r.amount))
           /\ reqs' = [reqs EXCEPT ![s] = [r EXCEPT !.pc = "enqueue"]
                                          @@ [refundId |-> Len(refunds) + 1]]
    /\ UNCHANGED <<merchants, orders, payments, webhook_logs, idempotency_keys,
                   queues, resps, now, posts, env>>

\* refundQueue.add, then res.status(201)
CreateRefundEnqueue(s) ==
    /\ reqs[s].op = "refund" /\ reqs[s].pc = "enqueue"
    /\ LET r == reqs[s]
       IN  /\ refundQueue' = Append(refundQueue,
                                    NewJob([refundId |-> r.refundId], 3, 0))
           /\ Respond(s, [op |-> "refund", m |-> r.m, status |-> 201, code |-> "",
                          id |-> r.refundId, target |-> r.pid, amount |-> r.amount])
    /\ UNCHANGED <<store, paymentQueue, webhookQueue, now, posts, env>>


-----------------------------------------------------------------------------
(* worker.js: enqueueWebhook and the payment worker *)

\* enqueueWebhook(merchantId, event, data): a delivery job that carries no log id
EventJob(m, event, id) ==
    NewJob([webhookLogId |-> 0, merchantId |-> m, event |-> event,
            payload |-> [event |-> event, id |-> id]], 1, 0)

\* Math.random() < successRate, or the forced outcome of TEST_MODE
IsSuccess(roll) == IF env.TEST_MODE THEN env.TEST_PAYMENT_SUCCESS ELSE roll

\* the worker without its UPDATE: the row is left as it was read
PaymentNotUpdated(row, isSuccess) == row

\* UPDATE payments SET status = ... WHERE id = $2
PaymentUpdate(row, isSuccess) ==
    IF isSuccess
    THEN [row EXCEPT !.status = "success"]
    ELSE [row EXCEPT !.status = "failed", !.error_code = "PAYMENT_FAILED",
                     !.error_description = "Payment processing failed"]

\* the job is taken; SELECT p.*, m.webhook_url FROM payments p JOIN merchants m
PaymentWorkerStart(j) ==
    /\ j \in DOMAIN paymentQueue
    /\ paymentQueue[j].state = "waiting"
    /\ WorkerFree(paymentQueue)
    /\ LET pid == paymentQueue[j].data.paymentId
       IN  paymentQueue' =
             IF pid \notin DOMAIN payments
             THEN Complete(paymentQueue, j)
             ELSE Take(paymentQueue, j,
                       [payment |-> payments[pid],
                        webhook_url |-> merchants[payments[pid].merchant_id].webhook_url,
                        pc |-> "update", isSuccess |-> FALSE])
    /\ UNCHANGED <<store, refundQueue, webhookQueue, reqs, resps, now, posts, env>>

\* after the delay: decide and UPDATE the row; without a webhook_url the processor
\* returns here. fault "store": the UPDATE rejects and the processor throws
PaymentWorkerUpdate(j, roll, fault) ==
    /\ j \in DOMAIN paymentQueue
    /\ paymentQueue[j].state = "active"
    /\ paymentQueue[j].local.pc = "update"
    /\ LET job == paymentQueue[j]
           pid == job.data.paymentId
           ok == IsSuccess(roll)
       IN  IF fault = "store"
           THEN /\ paymentQueue' = Throw(paymentQueue, j)
                /\ UNCHANGED payments
           ELSE /\ payments' = [payments EXCEPT ![pid] = PaymentUpdate(@, ok)]
                /\ paymentQueue' =
                     IF job.local.webhook_url = NULL
                     THEN Complete(paymentQueue, j)
                     ELSE [paymentQueue EXCEPT ![j].local.pc = "enqueue",
                                               ![j].local.isSuccess = ok]
    /\ UNCHANGED <<merchants, orders, refunds, webhook_logs, idempotency_keys,
                   refundQueue, webhookQueue, reqs, resps, now, posts, env>>

\* if (payment.webhook_url) await enqueueWebhook(...), after the UPDATE; then the
\* processor returns. fault "queue": webhookQueue.add rejects and the processor throws
PaymentWorkerEnqueue(j, fault) ==
    /\ j \in DOMAIN paymentQueue
    /\ paymentQueue[j].state = "active"
    /\ paymentQueue[j].local.pc = "enqueue"
    /\ LET job == paymentQueue[j]
           event == IF job.local.isSuccess THEN "payment.success" ELSE "payment.failed"
       IN  IF fault = "queue"
           THEN /\ paymentQueue' = Throw(paymentQueue, j)
                /\ UNCHANGED webhookQueue
           ELSE /\ webhookQueue' = Append(webhookQueue,
                     EventJob(job.local.payment.merchant_id, event, job.data.paymentId))
                /\ paymentQueue' = Complete(paymentQueue, j)
    /\ UNCHANGED <<store, refundQueue, reqs, resps, now, posts, env>>

\* the backoff delay of a retried job has passed
PaymentJobPromote(j) ==
    /\ j \in DOMAIN paymentQueue
    /\ paymentQueue[j].state = "delayed"
    /\ paymentQueue' = Promoted(paymentQueue, j)
    /\ UNCHANGED <<store, refundQueue, webhookQueue, reqs, resps, now, posts, env>>

-----------------------------------------------------------------------------
(* worker.js: the refund worker *)

\* the UPDATE without `processed_at = $1`
RefundUpdateStatusOnly(row, at) == [row EXCEPT !.status = "processed"]

\* UPDATE refunds SET status = 'processed', processed_at = $1 WHERE id = $2
RefundUpdate(row, at) == [row EXCEPT !.status = "processed", !.processed_at = at]

\* the worker without its check of the payment
NeverUnrefundable(payment_status) == FALSE

\* if (refund.payment_status !== 'success') return
Unrefundable(payment_status) == payment_status # "success"

\* the job is taken; SELECT r.*, p.status, m.webhook_url; a payment that is not
\* success ends the job
RefundWorkerStart(j) ==
    /\ j \in DOMAIN refundQueue
    /\ refundQueue[j].state = "waiting"
    /\ WorkerFree(refundQueue)
    /\ LET rid == refundQueue[j].data.refundId
       IN  refundQueue' =
             IF rid \notin DOMAIN refunds
                \/ Unrefundable(payments[refunds[rid].payment_id].status)
             THEN Complete(refundQueue, j)
             ELSE Take(refundQueue, j,
                       [refund |-> refunds[rid],
                        webhook_url |-> merchants[refunds[rid].merchant_id].webhook_url])
    /\ UNCHANGED <<store, paymentQueue, webhookQueue, reqs, resps, now, posts, env>>

\* after the delay: UPDATE the refund, enqueue refund.processed
RefundWorkerFinish(j, fault) ==
    /\ j \in DOMAIN refundQueue
    /\ refundQueue[j].state = "active"
    /\ LET job == refundQueue[j]
           rid == job.data.refundId
       IN  /\ fault = "queue" => job.local.webhook_url # NULL
           /\ refunds' = IF fault = "store" THEN refunds
                         ELSE [refunds EXCEPT ![rid] = RefundUpdate(@, now)]
           /\ webhookQueue' =
                IF fault = "none" /\ job.local.webhook_url # NULL
                THEN Append(webhookQueue,
                            EventJob(job.local.refund.merchant_id, "refund.processed", rid))
                ELSE webhookQueue
           /\ refundQueue' = IF fault = "none" THEN Complete(refundQueue, j)
                             ELSE Throw(refundQueue, j)
    /\ UNCHANGED <<merchants, orders, payments, webhook_logs, idempotency_keys,
                   paymentQueue, reqs, resps, now, posts, env>>

\* the backoff delay of a retried job has passed
RefundJobPromote(j) ==
    /\ j \in DOMAIN refundQueue
    /\ refundQueue[j].state = "delayed"
    /\ refundQueue' = Promoted(refundQueue, j)
    /\ UNCHANGED <<store, paymentQueue, webhookQueue, reqs, resps, now, posts, env>>

-----------------------------------------------------------------------------
(* POST /api/v1/payments/:paymentId/capture *)

\* the status check alone, without `if (payment.captured)`
CapturableWhateverCaptured(payment) == payment.status = "success"

\* the two checks on the row the handler has read
Capturable(payment) == payment.status = "success" /\ ~payment.captured

\* authenticate, SELECT the payment, check status and captured
CaptureGetPayment(s, m, pid) ==
    /\ Free(s)
    /\ Started("capture") < MaxCaptureReqs
    /\ IF ~Owned(payments, pid, m)
       THEN Respond(s, Error("capture", m, pid, 404, "NOT_FOUND", "Payment not found"))
       ELSE IF ~Capturable(payments[pid])
       THEN Respond(s, Error("capture", m, pid, 400, "BAD_REQUEST_ERROR",
                             IF payments[pid].status # "success"
                             THEN "Payment not in capturable state"
                             ELSE "Payment already captured"))
       ELSE /\ reqs' = [reqs EXCEPT ![s] =
                   [op |-> "capture", pc |-> "update", m |-> m, pid |-> pid]]
            /\ UNCHANGED resps
    /\ UNCHANGED <<store, queues, now, posts, env>>

\* UPDATE payments SET captured = TRUE WHERE id = $2, then res.json
CaptureUpdate(s) ==
    /\ reqs[s].op = "capture" /\ reqs[s].pc = "update"
    /\ LET r == reqs[s]
       IN  /\ payments' = [payments EXCEPT ![r.pid].captured = TRUE]
           /\ Respond(s, [op |-> "capture", m |-> r.m, status |-> 200, code |-> "",
                          id |-> r.pid, target |-> r.pid])
    /\ UNCHANGED <<merchants, orders, refunds, webhook_logs, idempotency_keys,
                   queues, now, posts, env>>

-----------------------------------------------------------------------------
(* POST /api/v1/payments *)

\* JavaScript's !x for a string field: absent (undefined) or empty
Falsy(x) == x = NULL \/ x = ""

\* 24 * 60 * 60 * 1000 ms, in hours
IdempotencyTtlHours == 24

\* SELECT * FROM idempotency_keys WHERE key = $1 AND merchant_id = $2 AND expires_at > NOW()
Cached(key, m) ==
    {r \in idempotency_keys : r.key = key /\ r.merchant_id = m /\ r.expires_at > now}

\* DELETE FROM idempotency_keys WHERE key = $1 AND merchant_id = $2
DeleteKey(rows, key, m) == {r \in rows : ~(r.key = key /\ r.merchant_id = m)}

\* the checks made before the order is read
MissingFields(body) == body.order_id = 0 \/ Falsy(body.method)

\* the checks made on the method and its fields
MethodOk(body) ==
    /\ body.method \in {"upi", "card"}
    /\ body.method = "upi" => ~Falsy(body.vpa)
    /\ body.method = "card" =>
         Len(body.card_number) > 0 /\ ~Falsy(body.card_expiry) /\ ~Falsy(body.card_cvv)

\* card_number.slice(-4)
Last4(n) == IF Len(n) <= 4 THEN n ELSE SubSeq(n, Len(n) - 3, Len(n))

\* card_number.startsWith('4') ? 'visa' : card_number.startsWith('5') ? 'mastercard' : 'unknown'
CardNetwork(n) == IF n[1] = 4 THEN "visa" ELSE IF n[1] = 5 THEN "mastercard" ELSE "unknown"

\* the INSERT with amount and currency taken from the request body
NewPaymentFromBody(m, body, order) ==
    PaymentRow(body.order_id, m, body.amount, body.currency, body.method, body.vpa,
               IF body.method = "card" THEN Last4(body.card_number) ELSE << >>,
               IF body.method = "card" THEN CardNetwork(body.card_number) ELSE NULL)

\* the row of the INSERT INTO payments
NewPayment(m, body, order) ==
    PaymentRow(body.order_id, m, order.amount, order.currency, body.method, body.vpa,
               IF body.method = "card" THEN Last4(body.card_number) ELSE << >>,
               IF body.method = "card" THEN CardNetwork(body.card_number) ELSE NULL)

\* the response object: vpa only for upi, card_last4 and card_network only for card
PaymentResponse(id, row) ==
    [id |-> id, order_id |-> row.order_id, amount |-> row.amount,
     currency |-> row.currency, method |-> row.method,
     vpa |-> IF row.method = "upi" THEN row.vpa ELSE NULL,
     card_last4 |-> row.card_last4, card_network |-> row.card_network,
     status |-> "pending"]

\* The response, and with it what an observer of the request knows: its key, the
\* order_id it asked for, the responses that had been sent when it arrived (seen),
\* the time it arrived (began) and the payment row it inserted (made, 0 for none)
PaymentReply(r, status, code, body, made) ==
    [op |-> "payment", m |-> r.m, status |-> status, code |-> code, id |-> body.id,
     key |-> r.key, body |-> body, at |-> now, seen |-> r.seen, began |-> r.began,
     made |-> made, order_id |-> r.body.order_id]

NoBody == [id |-> 0]

\* after the idempotency lookup: the required fields
CreatePaymentFields(s, r) ==
    IF MissingFields(r.body)
    THEN Respond(s, PaymentReply(r, 400, "BAD_REQUEST_ERROR", NoBody, 0))
    ELSE /\ reqs' = [reqs EXCEPT ![s] = [r EXCEPT !.pc = "order"]]
         /\ UNCHANGED resps

\* the test taken for a header that is present, whatever its value
KeySentIfDefined(key) == key # NULL

\* if (idempotencyKey): the header is absent (NULL) or a string, and '' is falsy
KeySent(key) == ~Falsy(key)

\* authenticate; with an Idempotency-Key, SELECT the unexpired record and answer
\* with its response when there is one
CreatePaymentBegin(s, m, key, body) ==
    /\ Free(s)
    /\ Started("payment") < MaxPaymentReqs
    /\ LET r == [op |-> "payment", pc |-> "delete", m |-> m, key |-> key, body |-> body,
                 seen |-> Len(resps), began |-> now]
       IN  IF KeySent(key)
           THEN IF Cached(key, m) # {}
                THEN Respond(s, PaymentReply(r, 201, "",
                                  (CHOOSE c \in Cached(key, m) : TRUE).response, 0))
                ELSE /\ reqs' = [reqs EXCEPT ![s] = r]
                     /\ UNCHANGED resps
           ELSE CreatePaymentFields(s, r)
    /\ UNCHANGED <<store, queues, now, posts, env>>

\* DELETE the record of the key (expired, if the lookup missed), then the required fields
CreatePaymentDelete(s) ==
    /\ reqs[s].op = "payment" /\ reqs[s].pc = "delete"
    /\ idempotency_keys' = DeleteKey(idempotency_keys, reqs[s].key, reqs[s].m)
    /\ CreatePaymentFields(s, reqs[s])
    /\ UNCHANGED <<merchants, orders, payments, refunds, webhook_logs, queues,
                   now, posts, env>>

\* SELECT the order of the merchant, then validate the method
CreatePaymentOrder(s) ==
    /\ reqs[s].op = "payment" /\ reqs[s].pc = "order"
    /\ LET r == reqs[s]
       IN  IF ~Owned(orders, r.body.order_id, r.m) \/ ~MethodOk(r.body)
           THEN Respond(s, PaymentReply(r, 400, "BAD_REQUEST_ERROR", NoBody, 0))
           ELSE /\ reqs' = [reqs EXCEPT ![s] = [r EXCEPT !.pc = "insert"]
                                   @@ [order |-> orders[r.body.order_id]]]
                /\ UNCHANGED resps
    /\ UNCHANGED <<store, queues, now, posts, env>>

\* INSERT INTO payments
CreatePaymentInsert(s) ==
    /\ reqs[s].op = "payment" /\ reqs[s].pc = "insert"
    /\ LET r == reqs[s]
       IN  /\ payments' = Append(payments, NewPayment(r.m, r.body, r.order))
           /\ reqs' = [reqs EXCEPT ![s] = [r EXCEPT !.pc = "enqueue"]
                                          @@ [paymentId |-> Len(payments) + 1]]
    /\ UNCHANGED <<merchants, orders, refunds, webhook_logs, idempotency_keys,
                   queues, resps, now, posts, env>>

\* a catch block that answers as if the request had succeeded
CreatePaymentCatch201(s, r) ==
    Respond(s, PaymentReply(r, 201, "", PaymentResponse(r.paymentId, payments[r.paymentId]),
                            r.paymentId))

\* catch (error): res.status(500).json({error: {code: 'INTERNAL_ERROR', ...}})
CreatePaymentCatch(s, r) ==
    Respond(s, PaymentReply(r, 500, "INTERNAL_ERROR", NoBody, r.paymentId))

\* paymentQueue.add; without a key, res.status(201). fault: the add rejects
CreatePaymentEnqueue(s, fault) ==
    /\ reqs[s].op = "payment" /\ reqs[s].pc = "enqueue"
    /\ LET r == reqs[s]
           response == PaymentResponse(r.paymentId, payments[r.paymentId])
       IN  IF fault
           THEN /\ CreatePaymentCatch(s, r)
                /\ UNCHANGED paymentQueue
           ELSE /\ paymentQueue' = Append(paymentQueue,
                                          NewJob([paymentId |-> r.paymentId], 3, 0))
                /\ IF KeySent(r.key)
                   THEN /\ reqs' = [reqs EXCEPT ![s].pc = "store"]
                        /\ UNCHANGED resps
                   ELSE Respond(s, PaymentReply(r, 201, "", response, r.paymentId))
    /\ UNCHANGED <<store, refundQueue, webhookQueue, now, posts, env>>

\* INSERT INTO idempotency_keys (primary key (key, merchant_id)), then res.status(201);
\* a duplicate key makes the INSERT throw: 500
CreatePaymentStore(s) ==
    /\ reqs[s].op = "payment" /\ reqs[s].pc = "store"
    /\ LET r == reqs[s]
           response == PaymentResponse(r.paymentId, payments[r.paymentId])
       IN  IF \E k \in idempotency_keys : k.key = r.key /\ k.merchant_id = r.m
           THEN /\ CreatePaymentCatch(s, r)
                /\ UNCHANGED idempotency_keys
           ELSE /\ idempotency_keys' = idempotency_keys \cup
                      {[key |-> r.key, merchant_id |-> r.m, response |-> response,
                        expires_at |-> now + IdempotencyTtlHours]}
                /\ Respond(s, PaymentReply(r, 201, "", response, r.paymentId))
    /\ UNCHANGED <<merchants, orders, payments, refunds, webhook_logs, queues,
                   now, posts, env>>

\* time passes: the lifetime of an idempotency record
Tick ==
    /\ now < MaxTicks * IdempotencyTtlHours
    /\ now' = now + IdempotencyTtlHours
    /\ UNCHANGED <<store, queues, reqs, resps, posts, env>>

-----------------------------------------------------------------------------
(* worker.js: the webhook worker *)

PRODUCTION_RETRY_INTERVALS == <<0, 60000, 300000, 1800000, 7200000>>
TEST_RETRY_INTERVALS == <<0, 5000, 10000, 15000, 20000>>

getRetryIntervals ==
    IF env.WEBHOOK_RETRY_INTERVALS_TEST THEN TEST_RETRY_INTERVALS
    ELSE PRODUCTION_RETRY_INTERVALS

\* the table read at the entry of the attempt that failed, not of the next one
RetryDelayOfSameAttempt(attempts) ==
    LET intervals == getRetryIntervals
        d == intervals[attempts]
    IN  IF d # 0 THEN d ELSE intervals[Len(intervals)]

\* intervals[attempts] || intervals[intervals.length - 1], on JavaScript's 0-based array
NextRetryDelay(attempts) ==
    LET intervals == getRetryIntervals
        d == IF attempts + 1 <= Len(intervals) THEN intervals[attempts + 1] ELSE 0
    IN  IF d # 0 THEN d ELSE intervals[Len(intervals)]

\* if (attempts >= 5)
MaxWebhookAttempts == 5

\* axios resolves for a 2xx status and rejects for any other status, a timeout or a
\* connection error (status 0 here: error.response?.status || 0)
Is2xx(code) == code >= 200 /\ code <= 299

\* INSERT INTO webhook_logs (...) VALUES ($1, $2, $3, 'pending', 0); -1 is SQL NULL
WebhookLogRow(m, event, payload) ==
    [merchant_id |-> m, event |-> event, payload |-> payload, status |-> "pending",
     attempts |-> 0, last_attempt_at |-> -1, next_retry_at |-> -1, response_code |-> -1]

\* the success UPDATE without `response_code = $2`
LogSuccessNoCode(row, code) ==
    [row EXCEPT !.status = "success", !.attempts = @ + 1, !.last_attempt_at = now]

\* the UPDATE of the success branch: attempts = attempts + 1 on the stored row
LogSuccess(row, code) ==
    [row EXCEPT !.status = "success", !.attempts = @ + 1, !.last_attempt_at = now,
                !.response_code = code]

\* the UPDATEs of the failure branch without `response_code = $4`
LogFailureNoCode(row, attempts, code) ==
    IF attempts >= MaxWebhookAttempts
    THEN [row EXCEPT !.status = "failed", !.attempts = attempts, !.last_attempt_at = now]
    ELSE [row EXCEPT !.status = "pending", !.attempts = attempts, !.last_attempt_at = now,
                     !.next_retry_at = NextRetryDelay(attempts)]

\* the UPDATEs of the failure branch: attempts is the value read at the start, plus 1;
\* next_retry_at is kept as its distance from now, in ms
LogFailure(row, attempts, code) ==
    IF attempts >= MaxWebhookAttempts
    THEN [row EXCEPT !.status = "failed", !.attempts = attempts, !.last_attempt_at = now,
                     !.response_code = code]
    ELSE [row EXCEPT !.status = "pending", !.attempts = attempts, !.last_attempt_at = now,
                     !.next_retry_at = NextRetryDelay(attempts), !.response_code = code]

\* the same add without webhookLogId
DeliveryJobWithoutId(id, data, delay) ==
    NewJob([webhookLogId |-> 0, merchantId |-> data.merchantId, event |-> data.event,
            payload |-> data.payload], 1, delay)

\* webhookQueue.add('deliver-webhook', {webhookLogId, merchantId, event, payload}, {delay})
DeliveryJob(id, data, delay) ==
    NewJob([webhookLogId |-> id, merchantId |-> data.merchantId, event |-> data.event,
            payload |-> data.payload], 1, delay)

\* the merchant check left out
UrlNeverMissing(merchant) == FALSE

\* if (!merchant.webhook_url)
UrlMissing(merchant) == Falsy(merchant.webhook_url)

\* the job is taken; SELECT the merchant (no webhook_url: return); SELECT the log of
\* the job, or INSERT one when the job carries no log id
WebhookWorkerStart(j) ==
    /\ j \in DOMAIN webhookQueue
    /\ webhookQueue[j].state = "waiting"
    /\ WorkerFree(webhookQueue)
    /\ LET data == webhookQueue[j].data
           merchant == merchants[data.merchantId]
           row == WebhookLogRow(data.merchantId, data.event, data.payload)
       IN  IF UrlMissing(merchant)
           THEN /\ webhookQueue' = Complete(webhookQueue, j)
                /\ UNCHANGED webhook_logs
           ELSE IF data.webhookLogId # 0
           THEN /\ webhookQueue' = Take(webhookQueue, j,
                      [merchant |-> merchant, id |-> data.webhookLogId,
                       webhookLog |-> webhook_logs[data.webhookLogId]])
                /\ UNCHANGED webhook_logs
           ELSE /\ webhook_logs' = Append(webhook_logs, row)
                /\ webhookQueue' = Take(webhookQueue, j,
                      [merchant |-> merchant, id |-> Len(webhook_logs) + 1,
                       webhookLog |-> row])
    /\ UNCHANGED <<merchants, orders, payments, refunds, idempotency_keys,
                   paymentQueue, refundQueue, reqs, resps, now, posts, env>>

\* axios.post answers with `code`; UPDATE the log; a failure below the ceiling
\* re-enqueues the job with the delay of the next attempt. posts records the request
\* and whether axios resolved (ok)
WebhookWorkerFinish(j, code) ==
    /\ j \in DOMAIN webhookQueue
    /\ webhookQueue[j].state = "active"
    /\ LET job == webhookQueue[j]
           id == job.local.id
           attempts == job.local.webhookLog.attempts + 1
       IN  /\ posts' = Append(posts, [webhookLogId |-> id,
                                      url |-> job.local.merchant.webhook_url,
                                      secret |-> job.local.merchant.webhook_secret,
                                      payload |-> job.data.payload, ok |-> Is2xx(code)])
           /\ IF Is2xx(code)
              THEN /\ webhook_logs' = [webhook_logs EXCEPT ![id] = LogSuccess(@, code)]
                   /\ webhookQueue' = Complete(webhookQueue, j)
              ELSE /\ webhook_logs' = [webhook_logs EXCEPT ![id] = LogFailure(@, attempts, code)]
                   /\ webhookQueue' =
                        IF attempts >= MaxWebhookAttempts
                        THEN Complete(webhookQueue, j)
                        ELSE Append(Complete(webhookQueue, j),
                                    DeliveryJob(id, job.data, NextRetryDelay(attempts)))
    /\ UNCHANGED <<merchants, orders, payments, refunds, idempotency_keys,
                   paymentQueue, refundQueue, reqs, resps, now, env>>

\* the delay of a scheduled retry has passed
WebhookJobPromote(j) ==
    /\ j \in DOMAIN webhookQueue
    /\ webhookQueue[j].state = "delayed"
    /\ webhookQueue' = Promoted(webhookQueue, j)
    /\ UNCHANGED <<store, paymentQueue, refundQueue, reqs, resps, now, posts, env>>

-----------------------------------------------------------------------------
(* index.js: the webhook routes *)

Ok(op, m, id) ==
    [op |-> op, m |-> m, status |-> 200, code |-> "", id |-> id, target |-> id]

\* PUT /api/v1/merchants/webhook: UPDATE merchants SET webhook_url = $1
UpdateWebhookUrl(s, m, url) ==
    /\ Free(s)
    /\ Started("webhook_url") < MaxUrlPuts
    /\ merchants' = [merchants EXCEPT ![m].webhook_url = url]
    /\ Respond(s, Ok("webhook_url", m, 0))
    /\ UNCHANGED <<orders, payments, refunds, webhook_logs, idempotency_keys,
                   queues, now, posts, env>>

\* POST /api/v1/merchants/webhook/test: 400 without a webhook_url, else a
\* test.webhook job
TestWebhook(s, m) ==
    /\ Free(s)
    /\ Started("test") < MaxTestReqs
    /\ IF merchants[m].webhook_url = NULL
       THEN /\ Respond(s, Error("test", m, 0, 400, "BAD_REQUEST_ERROR",
                                 "Webhook URL not configured"))
            /\ UNCHANGED webhookQueue
       ELSE /\ webhookQueue' = Append(webhookQueue, EventJob(m, "test.webhook", 0))
            /\ Respond(s, Ok("test", m, 0))
    /\ UNCHANGED <<store, paymentQueue, refundQueue, now, posts, env>>

\* the UPDATE without `attempts = 0`
LogResetKeepAttempts(row) == [row EXCEPT !.status = "pending", !.next_retry_at = 0]

\* UPDATE webhook_logs SET attempts = 0, status = 'pending', next_retry_at = NOW()
LogReset(row) == [row EXCEPT !.attempts = 0, !.status = "pending", !.next_retry_at = 0]

\* POST /api/v1/webhooks/:webhookId/retry: SELECT the log of the merchant, reset it
RetryWebhookReset(s, m, id) ==
    /\ Free(s)
    /\ Started("retry") < MaxRetryReqs
    /\ IF ~Owned(webhook_logs, id, m)
       THEN /\ Respond(s, Error("retry", m, id, 404, "NOT_FOUND",
                                 "Webhook log not found"))
            /\ UNCHANGED webhook_logs
       ELSE /\ webhook_logs' = [webhook_logs EXCEPT ![id] = LogReset(@)]
            /\ reqs' = [reqs EXCEPT ![s] =
                   [op |-> "retry", pc |-> "enqueue", m |-> m, id |-> id,
                    webhook |-> webhook_logs[id]]]
            /\ UNCHANGED resps
    /\ UNCHANGED <<merchants, orders, payments, refunds, idempotency_keys,
                   queues, now, posts, env>>

\* webhookQueue.add with the log's id, event and stored payload, then res.json;
\* `was` keeps, for an observer, the status that the SELECT had read
RetryWebhookEnqueue(s) ==
    /\ reqs[s].op = "retry" /\ reqs[s].pc = "enqueue"
    /\ LET r == reqs[s]
       IN  /\ webhookQueue' = Append(webhookQueue,
                 DeliveryJob(r.id, [merchantId |-> r.m, event |-> r.webhook.event,
                                    payload |-> r.webhook.payload], 0))
           /\ Respond(s, Ok("retry", r.m, r.id)
                            @@ [body |-> [id |-> r.id, status |-> "pending",
                                          message |-> "Webhook retry scheduled"],
                                was |-> r.webhook.status])
    /\ UNCHANGED <<store, paymentQueue, refundQueue, now, posts, env>>

-----------------------------------------------------------------------------
(* index.js: GET /api/v1/orders/:orderId, /payments/:paymentId, /refunds/:refundId *)

\* res.json(body): 200 with the fields of the row
Found(op, m, id, body) ==
    [op |-> op, m |-> m, status |-> 200, code |-> "", id |-> id, target |-> id,
     body |-> body]

\* SELECT the row of the merchant; 404 when there is none, else its fields
Get(s, op, m, id, table, what, body) ==
    /\ Free(s)
    /\ Started(op) < MaxGetReqs
    /\ IF ~Owned(table, id, m)
       THEN Respond(s, Error(op, m, id, 404, "NOT_FOUND", what))
       ELSE Respond(s, Found(op, m, id, body))
    /\ UNCHANGED <<store, queues, now, posts, env>>

GetOrder(s, m, id) ==
    Get(s, "get_order", m, id, orders, "Order not found",
        [amount |-> orders[id].amount, currency |-> orders[id].currency,
         status |-> orders[id].status])

GetPayment(s, m, id) ==
    Get(s, "get_payment", m, id, payments, "Payment not found",
        [order_id |-> payments[id].order_id, amount |-> payments[id].amount,
         currency |-> payments[id].currency, method |-> payments[id].method,
         status |-> payments[id].status, captured |-> payments[id].captured])

GetRefund(s, m, id) ==
    Get(s, "get_refund", m, id, refunds, "Refund not found",
        [payment_id |-> refunds[id].payment_id, amount |-> refunds[id].amount,
         status |-> refunds[id].status])

-----------------------------------------------------------------------------
(* index.js: POST /api/v1/orders, the list routes, the merchant routes *)

\* if (!amount || amount <= 0): 400; else INSERT INTO orders ... and 201
CreateOrder(s, m, amount) ==
    /\ Free(s)
    /\ IF amount = 0 \/ amount <= 0
       THEN /\ Respond(s, Error("order", m, 0, 400, "BAD_REQUEST_ERROR", "Invalid amount"))
            /\ UNCHANGED orders
       ELSE /\ orders' = Append(orders, OrderRow(m, amount))
            /\ Respond(s, [op |-> "order", m |-> m, status |-> 201, code |-> "",
                           id |-> Len(orders) + 1, target |-> 0])
    /\ UNCHANGED <<merchants, payments, refunds, webhook_logs, idempotency_keys,
                   queues, now, posts, env>>

\* SELECT * FROM <table> WHERE merchant_id = $1: the ids of the merchant's rows
RowsOf(table, m) == {id \in DOMAIN table : table[id].merchant_id = m}

\* a query-string value is absent (NULL) or a string, kept as the sequence of its
\* characters
DecimalDigits == <<"0", "1", "2", "3", "4", "5", "6", "7", "8", "9">>

IsDigit(c) == \E d \in DOMAIN DecimalDigits : DecimalDigits[d] = c

DigitValue(c) == (CHOOSE d \in DOMAIN DecimalDigits : DecimalDigits[d] = c) - 1

\* the string without its leading white space
RECURSIVE TrimStart(_)
TrimStart(str) ==
    IF str # << >> /\ Head(str) = " " THEN TrimStart(Tail(str)) ELSE str

\* the value of the longest prefix of decimal digits, after `acc`
RECURSIVE DigitsValue(_, _)
DigitsValue(str, acc) ==
    IF str # << >> /\ IsDigit(Head(str))
    THEN DigitsValue(Tail(str), 10 * acc + DigitValue(Head(str)))
    ELSE acc

\* parseInt(string) on decimal input: white space, an optional sign, then the digits
\* up to the first other character; NaN without a digit, and for undefined
ParseInt(raw) ==
    LET str == IF raw = NULL THEN << >> ELSE TrimStart(raw)
        signed == str # << >> /\ Head(str) \in {"-", "+"}
        digits == IF signed THEN Tail(str) ELSE str
        value == DigitsValue(digits, 0)
    IN  IF digits = << >> \/ ~IsDigit(Head(digits))
        THEN [nan |-> TRUE, value |-> 0]
        ELSE [nan |-> FALSE,
              value |-> IF signed /\ Head(str) = "-" THEN 0 - value ELSE value]

\* parseInt(x) || d: NaN and 0 are falsy
OrDefault(parsed, d) == IF parsed.nan \/ parsed.value = 0 THEN d ELSE parsed.value

\* the ids of a set of rows, ORDER BY created_at DESC (ids grow with creation)
RECURSIVE Descending(_)
Descending(ids) ==
    IF ids = {} THEN << >>
    ELSE LET top == CHOOSE i \in ids : \A k \in ids : k <= i
         IN  <<top>> \o Descending(ids \ {top})

\* LIMIT $2 OFFSET $3
Page(rows, limit, offset) ==
    SubSeq(rows, offset + 1, IF offset + limit < Len(rows) THEN offset + limit ELSE Len(rows))

\* the description of the 500 of each list route
ListFailure(op) ==
    CASE op = "list_webhooks" -> "Failed to list webhooks"
      [] op = "list_orders" -> "Failed to list orders"
      [] op = "list_payments" -> "Failed to list payments"
      [] op = "list_refunds" -> "Failed to list refunds"

\* a request without ?limit= and ?offset=
NoQuery == [limit |-> NULL, offset |-> NULL]

\* GET /api/v1/orders, /payments, /refunds, /webhooks: a page of the merchant's rows
\* and their count. PostgreSQL rejects a negative LIMIT or OFFSET, the query throws
\* and the handler answers 500
List(s, op, m, table, query) ==
    /\ Free(s)
    /\ LET limit == OrDefault(ParseInt(query.limit), 10)
           offset == OrDefault(ParseInt(query.offset), 0)
       IN  IF limit < 0 \/ offset < 0
           THEN Respond(s, Error(op, m, 0, 500, "INTERNAL_ERROR", ListFailure(op))
                             @@ [query |-> query, limit |-> limit, offset |-> offset])
           ELSE Respond(s, [op |-> op, m |-> m, status |-> 200, code |-> "", id |-> 0,
                            target |-> 0,
                            data |-> Page(Descending(RowsOf(table, m)), limit, offset),
                            total |-> Cardinality(RowsOf(table, m)),
                            query |-> query, limit |-> limit, offset |-> offset])
    /\ UNCHANGED <<store, queues, now, posts, env>>

\* GET /api/v1/merchants/profile: res.json of req.merchant
GetProfile(s, m) ==
    /\ Free(s)
    /\ Respond(s, [op |-> "profile", m |-> m, status |-> 200, code |-> "", id |-> 0,
                   target |-> 0, api_key |-> merchants[m].api_key,
                   webhook_url |-> merchants[m].webhook_url,
                   webhook_secret |-> merchants[m].webhook_secret])
    /\ UNCHANGED <<store, queues, now, posts, env>>

\* POST /api/v1/merchants/webhook/regenerate-secret: UPDATE merchants SET webhook_secret = $1
RegenerateSecret(s, m, newSecret) ==
    /\ Free(s)
    /\ merchants' = [merchants EXCEPT ![m].webhook_secret = newSecret]
    /\ Respond(s, [op |-> "regenerate", m |-> m, status |-> 200, code |-> "", id |-> 0,
                   target |-> 0, webhook_secret |-> newSecret])
    /\ UNCHANGED <<orders, payments, refunds, webhook_logs, idempotency_keys,
                   queues, now, posts, env>>

\* the number of jobs of queue q in a state
CountOf(q, state) == Cardinality({j \in DOMAIN q : q[j].state = state})

\* GET /health: no middleware
Health(s) ==
    /\ Idle(s)
    /\ Respond(s, [op |-> "health", m |-> "none", status |-> 200, code |-> "", id |-> 0,
                   target |-> 0])
    /\ UNCHANGED <<store, queues, now, posts, env>>

\* GET /api/v1/test/jobs/status: no middleware; the counts of the queues
JobsStatus(s) ==
    /\ Idle(s)
    /\ Respond(s, [op |-> "jobs_status", m |-> "none", status |-> 200, code |-> "",
                   id |-> 0, target |-> 0,
                   pending |-> CountOf(paymentQueue, "waiting")
                               + CountOf(webhookQueue, "waiting")
                               + CountOf(refundQueue, "waiting"),
                   processing |-> CountOf(paymentQueue, "active")
                                  + CountOf(webhookQueue, "active")
                                  + CountOf(refundQueue, "active"),
                   completed |-> CountOf(paymentQueue, "completed"),
                   failed |-> CountOf(paymentQueue, "failed")])
    /\ UNCHANGED <<store, queues, now, posts, env>>

-----------------------------------------------------------------------------
(* index.js: authenticateMerchant *)

\* the same SELECT on api_key alone
MerchantsWithKey(apiKey, apiSecret) ==
    {m \in DOMAIN merchants : merchants[m].api_key = apiKey}

\* SELECT * FROM merchants WHERE api_key = $1 AND api_secret = $2
MerchantsWith(apiKey, apiSecret) ==
    {m \in DOMAIN merchants :
        merchants[m].api_key = apiKey /\ merchants[m].api_secret = apiSecret}

\* a request for a route behind the middleware arrives with its two headers
\* (NULL: the header is absent)
Arrive(s, route, apiKey, apiSecret) ==
    /\ Idle(s)
    /\ reqs' = [reqs EXCEPT ![s] = [op |-> "auth", pc |-> "auth", route |-> route,
                                    apiKey |-> apiKey, apiSecret |-> apiSecret]]
    /\ UNCHANGED <<store, queues, resps, now, posts, env>>

\* authenticateMerchant: 401 without both headers or without a matching row; else
\* req.merchant = rows[0] and next()
Authenticate(s) ==
    /\ reqs[s].pc = "auth"
    /\ LET r == reqs[s]
           rows == MerchantsWith(r.apiKey, r.apiSecret)
       IN  IF Falsy(r.apiKey) \/ Falsy(r.apiSecret)
           THEN Respond(s, Error(r.route, "none", 0, 401, "UNAUTHORIZED",
                                 "Missing API credentials"))
           ELSE IF rows = {}
           THEN Respond(s, Error(r.route, "none", 0, 401, "UNAUTHORIZED",
                                 "Invalid API credentials"))
           ELSE /\ reqs' = [reqs EXCEPT ![s] = [r EXCEPT !.pc = "next"]
                                   @@ [merchant |-> CHOOSE m \in rows : TRUE]]
                /\ UNCHANGED resps
    /\ UNCHANGED <<store, queues, now, posts, env>>

-----------------------------------------------------------------------------
(* Initial states *)

\* process.env as the worker finds it: a variable is unset (NULL) or a string
ProcessEnvs == [TEST_MODE : {NULL, "true"},
                TEST_PAYMENT_SUCCESS : {NULL, "true", "false"},
                WEBHOOK_RETRY_INTERVALS_TEST : {NULL}]

\* process.env.TEST_PAYMENT_SUCCESS === 'true', in place of !== 'false'
TestPaymentSuccessIfTrue(raw) == raw = "true"

\* const TEST_PAYMENT_SUCCESS = process.env.TEST_PAYMENT_SUCCESS !== 'false'
TestPaymentSuccess(raw) == raw # "false"

\* the constants that worker.js computes from process.env when it is loaded
Configured(pe) ==
    [TEST_MODE |-> pe.TEST_MODE = "true",
     TEST_PAYMENT_SUCCESS |-> TestPaymentSuccess(pe.TEST_PAYMENT_SUCCESS),
     WEBHOOK_RETRY_INTERVALS_TEST |-> pe.WEBHOOK_RETRY_INTERVALS_TEST = "true",
     process_env |-> pe]

\* init.sql seeds the test merchant without a webhook_url
Seeded == [m \in MerchantIds |->
             [api_key |-> IF m = "mA" THEN "kA" ELSE "kB",
              api_secret |-> IF m = "mA" THEN "sA" ELSE "sB",
              webhook_url |-> NULL, webhook_secret |-> "whsec_test_abc123"]]

Envs == [TEST_MODE : BOOLEAN, TEST_PAYMENT_SUCCESS : BOOLEAN,
         WEBHOOK_RETRY_INTERVALS_TEST : BOOLEAN]

DefaultEnv == [TEST_MODE |-> FALSE, TEST_PAYMENT_SUCCESS |-> TRUE,
               WEBHOOK_RETRY_INTERVALS_TEST |-> FALSE]

Quiet ==
    /\ reqs = [s \in Slots |-> idle]
    /\ resps = << >>
    /\ now = 0
    /\ posts = << >>

-----------------------------------------------------------------------------
(* Payment processing: a payment that POST /api/v1/payments has just created *)
(* (row pending, job waiting), the payment worker, and capture requests.     *)

InitPay ==
    /\ \E url \in {NULL, "u1"} :
         merchants = [Seeded EXCEPT !["mA"].webhook_url = url]
    /\ \E a \in 1 .. MaxAmount :
         /\ orders = <<OrderRow("mA", a)>>
         /\ payments = <<UpiPayment(1, "mA", a)>>
    /\ refunds = << >>
    /\ webhook_logs = << >>
    /\ idempotency_keys = {}
    /\ paymentQueue = <<NewJob([paymentId |-> 1], 3, 0)>>
    /\ refundQueue = << >>
    /\ webhookQueue = << >>
    /\ env \in {e \in Envs : ~e.WEBHOOK_RETRY_INTERVALS_TEST}
    /\ Quiet

NextPay ==
    \/ \E j \in DOMAIN paymentQueue : PaymentWorkerStart(j)
    \/ \E j \in DOMAIN paymentQueue, roll \in BOOLEAN, fault \in {"none", "store"} :
           PaymentWorkerUpdate(j, roll, fault)
    \/ \E j \in DOMAIN paymentQueue, fault \in {"none", "queue"} :
           PaymentWorkerEnqueue(j, fault)
    \/ \E j \in DOMAIN paymentQueue : PaymentJobPromote(j)
    \/ \E s \in Slots, m \in MerchantIds, pid \in 1 .. Len(payments) + 1 :
           CaptureGetPayment(s, m, pid)
    \/ \E s \in Slots : CaptureUpdate(s)

SpecPay == InitPay /\ [][NextPay]_vars

Terminal(status) == status \in {"success", "failed"}

\* C35: in every reachable state, a payment row has error_code = 'PAYMENT_FAILED'
\* and a non-null error_description if and only if its status is failed; pending and
\* success payments have both fields null.
C35_ErrorFieldsIffFailed ==
    \A p \in DOMAIN payments :
        IF payments[p].status = "failed"
        THEN /\ payments[p].error_code = "PAYMENT_FAILED"
             /\ payments[p].error_description # NULL
        ELSE /\ payments[p].error_code = NULL
             /\ payments[p].error_description = NULL

\* C4: a payment's status changes only from pending to success or to failed, and a
\* terminal status (success, failed) never changes again, also when the queue
\* re-executes the payment-processing job.
C4_StatusOnlyLeavesPending ==
    [][\A p \in DOMAIN payments :
         payments'[p].status # payments[p].status
           => payments[p].status = "pending" /\ Terminal(payments'[p].status)]_vars

\* C5: every payment with captured = true has status = success.
C5_CapturedImpliesSuccess ==
    \A p \in DOMAIN payments : payments[p].captured => payments[p].status = "success"

\* the response that a step sends, when it sends one for operation op
Sends(op) ==
    /\ Len(resps') = Len(resps) + 1
    /\ resps'[Len(resps')].op = op

Sent == resps'[Len(resps')]

\* the steps of the capture handler, on the row as the handler reads it: it goes on
\* to the UPDATE only for a payment of the caller that is success and not captured,
\* answers 400 for any other payment of the caller, and a 400 changes no row; the
\* 200 is sent by the step that sets captured and changes nothing else
CaptureStep ==
    /\ \A s \in Slots :
         (reqs[s].op # "capture" /\ reqs'[s].op = "capture") =>
             /\ Owned(payments, reqs'[s].pid, reqs'[s].m)
             /\ payments[reqs'[s].pid].status = "success"
             /\ ~payments[reqs'[s].pid].captured
             /\ UNCHANGED <<store, queues>>
    /\ (Sends("capture") /\ Sent.status = 400) =>
             /\ Sent.code = "BAD_REQUEST_ERROR"
             /\ Owned(payments, Sent.target, Sent.m)
             /\ \/ payments[Sent.target].status \in {"pending", "failed"}
                \/ payments[Sent.target].captured
             /\ UNCHANGED <<store, queues>>
    /\ (Sends("capture") /\ Sent.status = 404) => ~Owned(payments, Sent.target, Sent.m)
    /\ (Sends("capture") /\ Sent.status = 200) =>
             \E s \in Slots :
                 /\ reqs[s].op = "capture" /\ reqs'[s] = idle
                 /\ Sent.target = reqs[s].pid
                 /\ payments' = [payments EXCEPT ![reqs[s].pid].captured = TRUE]
    /\ Sends("capture") => Sent.status \in {200, 400, 404}

\* C12: capture succeeds (200, captured set to true) only for a payment that the
\* handler finds with status = success and captured = false; a capture of a pending,
\* failed or already-captured payment returns 400 BAD_REQUEST_ERROR and leaves the
\* payment row unchanged.
C12_CaptureOnlySuccessUncaptured == [][CaptureStep]_vars

\* one capture was answered 200 and a later one 400 for the captured payment
C12_Witness ==
    \E i, j \in DOMAIN resps :
        /\ resps[i].op = "capture" /\ resps[i].status = 200
        /\ resps[j].op = "capture" /\ resps[j].status = 400
        /\ resps[j].description = "Payment already captured"
        /\ payments[resps[j].target].captured

\* the capture requests for payment p that were answered 200
Captures(p) ==
    {i \in DOMAIN resps :
        resps[i].op = "capture" /\ resps[i].status = 200 /\ resps[i].target = p}

\* C38: among any set of concurrent capture requests for the same successful,
\* uncaptured payment, at most one returns 200 and every other returns 400 'already
\* captured'; the row's captured flag goes from false to true exactly once and never
\* returns to false.
C38_OneCaptureWins ==
    /\ [](\A p \in DOMAIN payments : Cardinality(Captures(p)) <= 1)
    /\ [][\A p \in DOMAIN payments : payments[p].captured => payments'[p].captured]_vars

-----------------------------------------------------------------------------
(* Refunds: a processed payment (or one still pending), concurrent             *)
(* create-refund requests and the refund worker.                              *)

RefundAmounts == -1 .. MaxAmount + 1

InitRefund ==
    /\ merchants = Seeded
    /\ \E a \in 1 .. MaxAmount, status \in {"pending", "success", "failed"} :
         /\ orders = <<OrderRow("mA", a)>>
         /\ payments = <<IF status = "pending"
                         THEN UpiPayment(1, "mA", a)
                         ELSE PaymentUpdate(UpiPayment(1, "mA", a),
                                            status = "success")>>
         /\ paymentQueue = <<IF status = "pending"
                             THEN NewJob([paymentId |-> 1], 3, 0)
                             ELSE Complete(<<NewJob([paymentId |-> 1], 3, 0)>>, 1)[1]>>
    /\ refunds = << >>
    /\ webhook_logs = << >>
    /\ idempotency_keys = {}
    /\ refundQueue = << >>
    /\ webhookQueue = << >>
    /\ env = DefaultEnv
    /\ Quiet

NextRefund ==
    \/ \E s \in Slots, m \in MerchantIds, pid \in 1 .. Len(payments) + 1,
          amount \in RefundAmounts : CreateRefundGetPayment(s, m, pid, amount)
    \/ \E s \in Slots : CreateRefundSum(s)
    \/ \E s \in Slots : CreateRefundInsert(s)
    \/ \E s \in Slots : CreateRefundEnqueue(s)
    \/ \E j \in DOMAIN refundQueue : RefundWorkerStart(j)
    \/ \E j \in DOMAIN refundQueue, fault \in {"none", "store"} : RefundWorkerFinish(j, fault)
    \/ \E j \in DOMAIN refundQueue : RefundJobPromote(j)

SpecRefund == InitRefund /\ [][NextRefund]_vars

\* C1: for every payment, the amounts of all its refund rows (pending and processed)
\* sum to at most the payment's amount, under any interleaving of create-refund requests.
C1_RefundsWithinPayment ==
    \A p \in DOMAIN payments : TotalRefunded(p) <= payments[p].amount

\* the steps of the create-refund handler that depend on the payment's status: the
\* handler goes on past the check only for a payment of the caller with status
\* success, a refund row is inserted and a refund job enqueued only by a request that
\* went on, and the 400 of the status check changes no row and no queue
RefundStatusStep ==
    /\ \A s \in Slots :
         (reqs[s].op # "refund" /\ reqs'[s].op = "refund") =>
             /\ Owned(payments, reqs'[s].pid, reqs'[s].m)
             /\ payments[reqs'[s].pid].status = "success"
             /\ UNCHANGED <<store, queues>>
    /\ Len(refunds') > Len(refunds) =>
             \E s \in Slots :
                 /\ reqs[s].op = "refund" /\ reqs[s].pc = "insert"
                 /\ refunds' = Append(refunds, RefundRow(reqs[s].pid, reqs[s].m, reqs[s].amount))
    /\ Len(refundQueue') > Len(refundQueue) =>
             \E s \in Slots :
                 /\ reqs[s].op = "refund" /\ reqs[s].pc = "enqueue"
                 /\ Len(refundQueue') = Len(refundQueue) + 1
                 /\ refundQueue'[Len(refundQueue')].data.refundId = reqs[s].refundId
    /\ (Sends("refund") /\ \A s \in Slots : reqs[s].op # "refund" \/ reqs'[s] = reqs[s]) =>
             /\ UNCHANGED <<store, queues>>
             /\ IF ~Owned(payments, Sent.target, Sent.m)
                THEN Sent.status = 404
                ELSE /\ payments[Sent.target].status \in {"pending", "failed"}
                     /\ Sent.status = 400
                     /\ Sent.code = "BAD_REQUEST_ERROR"

\* C13: a refund row is created only for a payment that the handler finds with
\* status = success: create-refund on a pending or failed payment returns 400
\* BAD_REQUEST_ERROR, inserts no refund and enqueues no refund job.
C13_RefundOnlyOfSuccess == [][RefundStatusStep]_vars

\* a refund of a pending or failed payment was answered 400 and the payment has no refund
C13_Witness ==
    \E i \in DOMAIN resps :
        /\ resps[i].op = "refund" /\ resps[i].status = 400
        /\ resps[i].description = "Only successful payments can be refunded"
        /\ payments[resps[i].target].status \in {"pending", "failed"}
        /\ TotalRefunded(resps[i].target) = 0
        /\ refundQueue = << >>

\* the amount check of the create-refund handler, on the sum as the handler reads it:
\* it goes on to the INSERT exactly when 1 <= amount <= available, else it answers
\* 400 and changes nothing; a request that went on is answered 201 with its amount
RefundAmountStep ==
    \A s \in Slots :
        /\ (reqs[s].op = "refund" /\ reqs[s].pc = "sum" /\ reqs'[s] # reqs[s]) =>
             LET a == reqs[s].amount
                 available == payments[reqs[s].pid].amount - TotalRefunded(reqs[s].pid)
             IN  IF 1 <= a /\ a <= available
                 THEN reqs'[s].op = "refund" /\ reqs'[s].pc = "insert" /\ UNCHANGED resps
                 ELSE /\ reqs'[s] = idle
                      /\ Sends("refund") /\ Sent.status = 400
                      /\ Sent.code = "BAD_REQUEST_ERROR"
                      /\ UNCHANGED <<store, queues>>
        /\ (reqs[s].op = "refund" /\ reqs[s].pc = "insert" /\ reqs'[s] # reqs[s]) =>
             /\ reqs'[s].pc = "enqueue" /\ UNCHANGED resps
             /\ refunds' = Append(refunds, RefundRow(reqs[s].pid, reqs[s].m, reqs[s].amount))
        /\ (reqs[s].op = "refund" /\ reqs[s].pc = "enqueue" /\ reqs'[s] # reqs[s]) =>
             /\ Sends("refund") /\ Sent.status = 201 /\ Sent.amount = reqs[s].amount
        /\ (Sends("refund") /\ Sent.status = 201) =>
             \E t \in Slots : reqs[t].op = "refund" /\ reqs[t].pc = "enqueue" /\ reqs'[t] = idle

\* C14: for a successful payment with available = payment.amount minus the sum of all
\* its refunds as the handler reads it, a create-refund request with integer amount a
\* returns 201 exactly when 1 <= a <= available: a = available succeeds,
\* a = available + 1 returns 400, and a = 0 or a < 0 returns 400.
C14_RefundAmountWindow == [][RefundAmountStep]_vars

\* a payment refunded in full by a request for exactly the available amount, a request
\* for more answered 400, and a request for 0 or less answered 400
C14_Witness ==
    \E i, j, k \in DOMAIN resps :
        /\ resps[i].op = "refund" /\ resps[i].status = 201
        /\ resps[i].amount = payments[resps[i].target].amount
        /\ TotalRefunded(resps[i].target) = payments[resps[i].target].amount
        /\ resps[j].op = "refund" /\ resps[j].status = 400
        /\ resps[j].description = "Refund amount exceeds available amount"
        /\ resps[k].op = "refund" /\ resps[k].status = 400
        /\ resps[k].description = "Invalid refund amount"

-----------------------------------------------------------------------------
(* Idempotency: one order of merchant mA, concurrent create-payment requests  *)
(* with and without an Idempotency-Key, and the clock.                        *)

Upi(o, vpa) == [order_id |-> o, method |-> "upi", vpa |-> vpa, card_number |-> << >>,
                card_expiry |-> NULL, card_cvv |-> NULL]

\* request bodies: two valid ones that differ in vpa, and one without a method
PaymentBodies ==
    {Upi(1, "v1"), Upi(1, "v2"), [Upi(1, "v1") EXCEPT !.method = NULL]}

InitIdem ==
    /\ merchants = Seeded
    /\ orders = <<OrderRow("mA", 1)>>
    /\ payments = << >>
    /\ refunds = << >>
    /\ webhook_logs = << >>
    /\ idempotency_keys = {}
    /\ paymentQueue = << >>
    /\ refundQueue = << >>
    /\ webhookQueue = << >>
    /\ env = DefaultEnv
    /\ Quiet

NextIdem ==
    \/ \E s \in Slots, m \in MerchantIds, key \in {"", "k1"}, body \in PaymentBodies :
           CreatePaymentBegin(s, m, key, body)
    \/ \E s \in Slots : CreatePaymentDelete(s)
    \/ \E s \in Slots : CreatePaymentOrder(s)
    \/ \E s \in Slots : CreatePaymentInsert(s)
    \/ \E s \in Slots, fault \in BOOLEAN : CreatePaymentEnqueue(s, fault)
    \/ \E s \in Slots : CreatePaymentStore(s)
    \/ Tick

SpecIdem == InitIdem /\ [][NextIdem]_vars

\* the payment rows inserted by requests of merchant m with Idempotency-Key k
MadeFor(k, m) ==
    {resps[i].made : i \in {i \in DOMAIN resps :
        resps[i].op = "payment" /\ resps[i].key = k /\ resps[i].m = m /\ resps[i].made # 0}}
    \cup {reqs[s].paymentId : s \in {s \in Slots :
        reqs[s].op = "payment" /\ reqs[s].pc \in {"enqueue", "store"}
        /\ reqs[s].key = k /\ reqs[s].m = m}}

JobsFor(k, m) ==
    {j \in DOMAIN paymentQueue : paymentQueue[j].data.paymentId \in MadeFor(k, m)}

\* a request that inserted a row, enqueued its job and then answered 500: it lost
\* the race on the primary key
LostRace(i) ==
    /\ resps[i].op = "payment" /\ resps[i].key # "" /\ resps[i].status = 500
    /\ \E j \in DOMAIN paymentQueue : paymentQueue[j].data.paymentId = resps[i].made

\* C2: while no record can have expired, an (Idempotency-Key, merchant) pair has at
\* most one payment row and at most one payment-processing job, also under
\* concurrent requests, and no request that lost the race on the primary key
\* answers with an error.
C2_OnePaymentPerKey ==
    now < IdempotencyTtlHours =>
        /\ \A m \in MerchantIds :
             /\ Cardinality(MadeFor("k1", m)) <= 1
             /\ Cardinality(JobsFor("k1", m)) <= 1
        /\ \A i \in DOMAIN resps : ~LostRace(i)

\* response j answers a request that arrived after response i was sent and before
\* the record written with response i expired
LaterSameKey(i, j) ==
    /\ resps[i].op = "payment" /\ resps[j].op = "payment"
    /\ resps[i].key # "" /\ resps[i].status = 201 /\ resps[i].made # 0
    /\ resps[j].key = resps[i].key /\ resps[j].m = resps[i].m
    /\ resps[j].seen >= i
    /\ resps[j].began < resps[i].at + IdempotencyTtlHours

\* C3: once a create-payment request with key k has returned 201, every later
\* request of the merchant with key k, made before the record expires, returns 201
\* with the stored response, whatever its body, and inserts no payment row.
C3_LaterRequestsReplay ==
    \A i, j \in DOMAIN resps :
        LaterSameKey(i, j) =>
            /\ resps[j].status = 201
            /\ resps[j].body = resps[i].body
            /\ resps[j].made = 0

\* response i is a 201 of a request that wrote the record of its key
Wrote(i) ==
    /\ resps[i].op = "payment" /\ resps[i].key # ""
    /\ resps[i].status = 201 /\ resps[i].made # 0

\* response j answers a request with the key and merchant of response i that arrived
\* after response i was sent
After(i, j) ==
    /\ resps[j].op = "payment"
    /\ resps[j].key = resps[i].key /\ resps[j].m = resps[i].m
    /\ resps[j].seen >= i

\* C16: an idempotency record expires 24 h after it is written: a request with the
\* key that arrives after every record written before it has expired is not answered
\* from a record (its 201 names a payment it inserted, with a new id), and a request
\* that arrives before the record's expires_at inserts no payment.
C16_RecordLivesADay ==
    \A j \in DOMAIN resps :
        /\ (/\ resps[j].op = "payment" /\ resps[j].key # "" /\ resps[j].status = 201
            /\ \A i \in DOMAIN resps :
                 (Wrote(i) /\ After(i, j))
                    => resps[j].began >= resps[i].at + IdempotencyTtlHours)
             => /\ resps[j].made # 0
                /\ resps[j].body.id = resps[j].made
                /\ \A i \in DOMAIN resps :
                     (Wrote(i) /\ After(i, j)) => resps[j].made # resps[i].made
        /\ \A i \in DOMAIN resps :
             (/\ Wrote(i) /\ After(i, j)
              /\ resps[j].began < resps[i].at + IdempotencyTtlHours)
                => resps[j].made = 0

\* C37: an idempotency record that has not expired is never deleted: under any
\* interleaving of concurrent create-payment requests with the same key and merchant,
\* the delete issued after a lookup miss removes only an expired or absent record,
\* never a record that another request has just written.
C37_UnexpiredRecordKept ==
    [][\A k \in idempotency_keys : k.expires_at > now => k \in idempotency_keys']_vars

\* the operations that answer 400 BAD_REQUEST_ERROR
ValidatingOps == {"order", "payment", "capture", "refund", "test"}

\* C15: a request answered with 400 BAD_REQUEST_ERROR (create order, create payment,
\* capture, create refund, test webhook) leaves every table of the store and every
\* queue as it was: the step that sends the 400 changes none of them.
C15_BadRequestChangesNothing ==
    [][(/\ Len(resps') = Len(resps) + 1
        /\ Sent.op \in ValidatingOps
        /\ Sent.status = 400) => UNCHANGED <<store, queues>>]_vars

-----------------------------------------------------------------------------
(* Payment creation: POST /api/v1/payments on the orders of two merchants, with *)
(* POST /api/v1/orders, the payment worker and capture beside it.               *)

\* a request body; amount and currency are fields that the handler does not read
Body(o, method, vpa, card_number) ==
    [order_id |-> o, method |-> method, vpa |-> vpa, card_number |-> card_number,
     card_expiry |-> IF card_number = << >> THEN NULL ELSE "12/30",
     card_cvv |-> IF card_number = << >> THEN NULL ELSE "123",
     amount |-> MaxAmount + 1, currency |-> "EUR"]

\* order 1 is of mA, order 2 of mB, order 3 does not exist; 0 is no order_id
CreateBodies ==
    {Body(o, "upi", "v1", << >>) : o \in 0 .. 3}
    \cup {Body(1, "card", NULL, <<4, 1, 1, 1, 1>>), Body(1, "card", "v1", <<5, 1>>),
          Body(1, "upi", NULL, << >>), Body(1, "wallet", NULL, << >>)}

InitCreate ==
    /\ merchants = Seeded
    /\ orders = <<OrderIn("mA", 1, "INR"), OrderIn("mB", MaxAmount, "USD")>>
    /\ payments = << >>
    /\ refunds = << >>
    /\ webhook_logs = << >>
    /\ idempotency_keys = {}
    /\ paymentQueue = << >>
    /\ refundQueue = << >>
    /\ webhookQueue = << >>
    /\ env = DefaultEnv
    /\ Quiet

NextCreate ==
    \/ /\ Arrived < MaxCreateReqs
       /\ \E s \in Slots, m \in MerchantIds :
            \/ \E key \in {NULL, "", "k1"}, body \in CreateBodies :
                   CreatePaymentBegin(s, m, key, body)
            \/ \E amount \in 0 .. 1 : CreateOrder(s, m, amount)
            \/ \E pid \in 1 .. Len(payments) + 1 : CaptureGetPayment(s, m, pid)
    \/ \E s \in Slots : CreatePaymentDelete(s)
    \/ \E s \in Slots : CreatePaymentOrder(s)
    \/ \E s \in Slots : CreatePaymentInsert(s)
    \/ \E s \in Slots : CreatePaymentEnqueue(s, FALSE)
    \/ \E s \in Slots : CreatePaymentStore(s)
    \/ \E s \in Slots : CaptureUpdate(s)
    \/ \E j \in DOMAIN paymentQueue : PaymentWorkerStart(j)
    \/ \E j \in DOMAIN paymentQueue, roll \in BOOLEAN : PaymentWorkerUpdate(j, roll, "none")

SpecCreate == InitCreate /\ [][NextCreate]_vars

\* C21: every payment row has amount and currency equal to those of the order it
\* references, fixed at creation from the order row and independent of anything in
\* the request body; no worker or API operation changes an order row after it is
\* created (its status stays 'created').
C21_PaymentCopiesOrder ==
    /\ [](/\ \A p \in DOMAIN payments :
              /\ payments[p].order_id \in DOMAIN orders
              /\ payments[p].amount = orders[payments[p].order_id].amount
              /\ payments[p].currency = orders[payments[p].order_id].currency
          /\ \A o \in DOMAIN orders : orders[o].status = "created")
    /\ [][/\ \A o \in DOMAIN orders : o \in DOMAIN orders' /\ orders'[o] = orders[o]
          /\ \A p \in DOMAIN payments :
                /\ payments'[p].amount = payments[p].amount
                /\ payments'[p].currency = payments[p].currency
                /\ payments'[p].order_id = payments[p].order_id]_vars

\* a payment of the USD order, made from a body that names another amount and
\* currency, has been processed and captured
C21_Witness ==
    \E p \in DOMAIN payments :
        /\ payments[p].currency = "USD" /\ payments[p].amount = MaxAmount
        /\ payments[p].status = "success" /\ payments[p].captured

\* C22: in every reachable state, a payment row has a vpa if and only if its method
\* is upi, and has card_last4 and card_network if and only if its method is card.
C22_MethodFields ==
    \A p \in DOMAIN payments :
        /\ payments[p].vpa # NULL <=> payments[p].method = "upi"
        /\ (payments[p].card_last4 # << >> /\ payments[p].card_network # NULL)
               <=> payments[p].method = "card"

\* slot s handles a create-payment request that came with the header Idempotency-Key: ''
EmptyKey(r) == r.op = "payment" /\ r.key = ""

\* a step of such a request leaves the idempotency records alone, and a 201 for it
\* carries the payment that this request inserted
EmptyKeyStep ==
    /\ \A s \in Slots :
         ((EmptyKey(reqs[s]) \/ EmptyKey(reqs'[s])) /\ reqs'[s] # reqs[s])
             => UNCHANGED idempotency_keys
    /\ (Sends("payment") /\ Sent.key = "") =>
             /\ UNCHANGED idempotency_keys
             /\ Sent.status = 201 =>
                    /\ Sent.made \in DOMAIN payments
                    /\ Sent.body.id = Sent.made
                    /\ \A i \in DOMAIN resps : resps[i].op = "payment" =>
                           resps[i].made # Sent.made /\ resps[i].body.id # Sent.made

\* C23: a create-payment request whose Idempotency-Key header is the empty string is
\* handled as if no key was sent: it never returns a cached response, it creates a
\* new payment on every call, and it reads, deletes and writes no idempotency record.
C23_EmptyKeyIsNoKey ==
    /\ [](\A s \in Slots : EmptyKey(reqs[s]) => reqs[s].pc \notin {"delete", "store"})
    /\ [][EmptyKeyStep]_vars

\* two requests with the empty key were answered 201 with two payments, and no
\* record was stored
C23_Witness ==
    \E i, j \in DOMAIN resps :
        /\ i # j
        /\ resps[i].op = "payment" /\ resps[i].key = "" /\ resps[i].status = 201
        /\ resps[j].op = "payment" /\ resps[j].key = "" /\ resps[j].status = 201
        /\ resps[i].made # resps[j].made
        /\ resps[i].body.vpa = resps[j].body.vpa
        /\ idempotency_keys = {}

\* order_id names an order of merchant m
NamesOrderOf(order_id, m) ==
    order_id \in DOMAIN orders /\ orders[order_id].merchant_id = m

\* a create-payment request whose order_id names no order of the caller
BadOrder(r) == r.op = "payment" /\ ~NamesOrderOf(r.body.order_id, r.m)

\* a step of such a request inserts no payment, adds no job and stores no record
BadOrderWritesNothing ==
    \A s \in Slots :
        ((BadOrder(reqs[s]) \/ BadOrder(reqs'[s])) /\ reqs'[s] # reqs[s]) =>
            /\ UNCHANGED <<payments, queues>>
            /\ idempotency_keys' \subseteq idempotency_keys

\* the answer to a request whose order_id names no order of the caller
AnswersBadOrder == Sends("payment") /\ ~NamesOrderOf(Sent.order_id, Sent.m)

\* the step is the arrival of a request: no create-payment request in flight took it
OnArrival == \A s \in Slots : reqs[s].op = "payment" => reqs'[s] = reqs[s]

\* C25: a create-payment request whose order_id does not name an order of the calling
\* merchant (non-existent, or owned by another merchant) returns 400
\* BAD_REQUEST_ERROR, inserts no payment row, enqueues no job and writes no
\* idempotency record.
C25_BadOrderIs400 ==
    [][/\ BadOrderWritesNothing
       /\ AnswersBadOrder =>
              /\ Sent.status = 400 /\ Sent.code = "BAD_REQUEST_ERROR"
              /\ Sent.made = 0
              /\ UNCHANGED <<payments, queues>>
              /\ idempotency_keys' \subseteq idempotency_keys]_vars

\* C25, amended: the request returns 400 BAD_REQUEST_ERROR unless it carries an
\* Idempotency-Key with an unexpired record, in which case it returns 201 with the
\* stored response; in both cases it inserts no payment row, enqueues no job and
\* writes no idempotency record.
C25_BadOrderIs400OrReplay ==
    [][/\ BadOrderWritesNothing
       /\ AnswersBadOrder =>
              /\ Sent.made = 0
              /\ UNCHANGED <<payments, queues>>
              /\ idempotency_keys' \subseteq idempotency_keys
              /\ IF OnArrival /\ KeySent(Sent.key) /\ Cached(Sent.key, Sent.m) # {}
                 THEN /\ Sent.status = 201
                      /\ \E c \in Cached(Sent.key, Sent.m) : Sent.body = c.response
                 ELSE Sent.status = 400 /\ Sent.code = "BAD_REQUEST_ERROR"]_vars

\* mA asked, with a key, for a payment of the order of mB and was answered 400;
\* there is no payment, no job and no record
C25_Witness ==
    /\ \E i \in DOMAIN resps :
         /\ resps[i].op = "payment" /\ resps[i].m = "mA" /\ resps[i].status = 400
         /\ resps[i].key = "k1"
         /\ resps[i].order_id \in DOMAIN orders
         /\ orders[resps[i].order_id].merchant_id = "mB"
    /\ payments = << >> /\ paymentQueue = << >> /\ idempotency_keys = {}

-----------------------------------------------------------------------------
(* Webhook delivery: the seeded store, a merchant that sets and clears its     *)
(* webhook_url, test events, the webhook worker and manual retries.            *)

ResponseCodes == {200, 500, 0}

InitWebhook ==
    /\ merchants = Seeded
    /\ orders = << >>
    /\ payments = << >>
    /\ refunds = << >>
    /\ webhook_logs = << >>
    /\ idempotency_keys = {}
    /\ paymentQueue = << >>
    /\ refundQueue = << >>
    /\ webhookQueue = << >>
    /\ env \in {e \in Envs : ~e.TEST_MODE /\ e.TEST_PAYMENT_SUCCESS}
    /\ Quiet

NextWebhook ==
    \/ \E s \in Slots, url \in {NULL, "u1"} : UpdateWebhookUrl(s, "mA", url)
    \/ \E s \in Slots : TestWebhook(s, "mA")
    \/ \E j \in DOMAIN webhookQueue : WebhookWorkerStart(j)
    \/ \E j \in DOMAIN webhookQueue, code \in ResponseCodes : WebhookWorkerFinish(j, code)
    \/ \E j \in DOMAIN webhookQueue : WebhookJobPromote(j)
    \/ \E s \in Slots, m \in MerchantIds, id \in 1 .. Len(webhook_logs) + 1 :
           RetryWebhookReset(s, m, id)
    \/ \E s \in Slots : RetryWebhookEnqueue(s)

SpecWebhook == InitWebhook /\ [][NextWebhook]_vars

\* C6: every webhook log has 0 <= attempts <= 5, and every failed log has attempts = 5,
\* for any sequence of delivery jobs, failures and manual retries.
C6_AttemptsBounded ==
    \A w \in DOMAIN webhook_logs :
        /\ webhook_logs[w].attempts >= 0
        /\ webhook_logs[w].attempts <= MaxWebhookAttempts
        /\ webhook_logs[w].status = "failed" => webhook_logs[w].attempts = MaxWebhookAttempts

\* The webhook worker runs whenever it has a job, delays run out, and a retry
\* request that has reset the log goes on to enqueue its job
FairWebhook ==
    /\ SpecWebhook
    /\ WF_vars(\E j \in DOMAIN webhookQueue : WebhookWorkerStart(j))
    /\ WF_vars(\E j \in DOMAIN webhookQueue, code \in ResponseCodes :
                   WebhookWorkerFinish(j, code))
    /\ WF_vars(\E j \in DOMAIN webhookQueue : WebhookJobPromote(j))
    /\ WF_vars(\E s \in Slots : RetryWebhookEnqueue(s))

Settled(w) == w \in DOMAIN webhook_logs /\ webhook_logs[w].status \in {"success", "failed"}

\* C7: under fair scheduling of the webhook worker, the log of every event that was
\* fanned out for a merchant with a webhook_url reaches success or failed; it never
\* stays pending forever.
C7_PendingLogsSettle ==
    \A w \in 1 .. MaxTestReqs :
        (w \in DOMAIN webhook_logs /\ webhook_logs[w].status = "pending") ~> Settled(w)

\* the delivery jobs of log w that are waiting, delayed or active
LiveJobs(w) ==
    {j \in DOMAIN webhookQueue :
        /\ webhookQueue[j].state \in {"waiting", "delayed", "active"}
        /\ \/ webhookQueue[j].data.webhookLogId = w
           \/ webhookQueue[j].state = "active" /\ webhookQueue[j].local.id = w}

\* the HTTP POSTs made for log w
PostsOf(w) == {i \in DOMAIN posts : posts[i].webhookLogId = w}

\* a manual retry of log w has been accepted
Retried(w) ==
    \/ \E i \in DOMAIN resps : resps[i].op = "retry" /\ resps[i].status = 200 /\ resps[i].id = w
    \/ \E s \in Slots : reqs[s].op = "retry" /\ reqs[s].id = w

\* five POSTs were made for log w, the log is failed with attempts = 5 and none of
\* its delivery jobs is waiting, delayed or active
Exhausted(w) ==
    /\ Cardinality(PostsOf(w)) = MaxWebhookAttempts
    /\ webhook_logs[w].status = "failed"
    /\ webhook_logs[w].attempts = MaxWebhookAttempts
    /\ LiveJobs(w) = {}

\* C8: when every delivery attempt of an event fails, exactly 5 POSTs are made, the
\* log ends failed with attempts = 5, and after the fifth attempt no delivery job of
\* the log is waiting, delayed or active. For one schedule (a log that is not manually
\* retried), under fair scheduling: once the log exists, an attempt succeeds or the
\* log is exhausted.
C8_FiveFailuresExhaust ==
    \A w \in 1 .. MaxTestReqs :
        (w \in DOMAIN webhook_logs)
          ~> \/ Retried(w)
             \/ \E i \in PostsOf(w) : posts[i].ok
             \/ Exhausted(w)

\* a retry request has reset log w and is about to add its job
RetryInFlight(w) ==
    \E s \in Slots : reqs[s].op = "retry" /\ reqs[s].pc = "enqueue" /\ reqs[s].id = w

\* C26: in every reachable state, every webhook log with status = pending has at
\* least one webhook-delivery job that carries its id and is waiting, delayed or
\* being processed; this holds across merchant webhook_url changes, secret rotation
\* and manual retries. (The job that inserted the log counts while it is being
\* processed, and so does the job that a retry request in flight is about to add.)
C26_PendingLogHasJob ==
    \A w \in DOMAIN webhook_logs :
        webhook_logs[w].status = "pending" => (LiveJobs(w) # {} \/ RetryInFlight(w))

\* the step is the UPDATE of a manual retry of log w
RetryResets(w) ==
    \E s \in Slots :
        /\ reqs[s].op # "retry" /\ reqs'[s].op = "retry" /\ reqs'[s].id = w
        /\ webhook_logs'[w].attempts = 0

\* C27: delivery attempts for one webhook log are strictly serial: at any time at
\* most one webhook-delivery job for a given log is waiting, delayed or active, a new
\* job for the log is enqueued only after the previous attempt's log update has been
\* written, and between two manual retries the log's attempts value never decreases
\* and grows by exactly 1 per attempt.
C27_AttemptsSerial ==
    /\ [](\A w \in DOMAIN webhook_logs : Cardinality(LiveJobs(w)) <= 1)
    /\ [][\A w \in DOMAIN webhook_logs :
            webhook_logs'[w].attempts # webhook_logs[w].attempts =>
                \/ RetryResets(w)
                \/ webhook_logs'[w].attempts = webhook_logs[w].attempts + 1]_vars

\* the delay before attempt k + 1, in ms
BackoffTable ==
    IF env.WEBHOOK_RETRY_INTERVALS_TEST
    THEN <<5000, 10000, 15000, 20000>>
    ELSE <<60000, 300000, 1800000, 7200000>>

\* the step is the end of a delivery whose POST failed
AttemptFails == Len(posts') = Len(posts) + 1 /\ ~posts'[Len(posts')].ok

\* the job that the worker is processing
ActiveJob == webhookQueue[CHOOSE j \in DOMAIN webhookQueue : webhookQueue[j].state = "active"]

\* when the attempt that fails is the k-th of the log (k = the attempts the worker
\* read, plus 1) and k is in 1..4: the log is pending with attempts = k and
\* next_retry_at at the table's delay from now, and one job of the log is added with
\* that delay
FailedAttemptReschedules ==
    AttemptFails =>
        LET id == ActiveJob.local.id
            k == ActiveJob.local.webhookLog.attempts + 1
            n == Len(webhookQueue')
        IN  k \in 1 .. MaxWebhookAttempts - 1 =>
                /\ webhook_logs'[id].status = "pending"
                /\ webhook_logs'[id].attempts = k
                /\ webhook_logs'[id].next_retry_at = BackoffTable[k]
                /\ n = Len(webhookQueue) + 1
                /\ webhookQueue'[n].data.webhookLogId = id
                /\ webhookQueue'[n].state = "delayed"
                /\ webhookQueue'[n].delay = BackoffTable[k]
                /\ \A j \in DOMAIN webhookQueue :
                       webhookQueue'[j].state \in {webhookQueue[j].state, "completed"}

\* C28: when the k-th attempt for a log fails with k in 1..4, the log is set to
\* pending with attempts = k and one delivery job is re-enqueued with the delay of the
\* backoff table entry for attempt k+1: 60000, 300000, 1800000, 7200000 ms in
\* production and 5000, 10000, 15000, 20000 ms when WEBHOOK_RETRY_INTERVALS_TEST is
\* 'true'; the 0 ms entry is never used for a retry and next_retry_at is set to now
\* plus that same delay.
C28_BackoffTable ==
    /\ [](\A j \in DOMAIN webhookQueue :
             webhookQueue[j].state = "delayed" => webhookQueue[j].delay > 0)
    /\ [][FailedAttemptReschedules]_vars

\* in production the fourth attempt of a log has failed: the log is pending with
\* attempts = 4 and its job waits two hours
C28_Witness ==
    /\ ~env.WEBHOOK_RETRY_INTERVALS_TEST
    /\ \E w \in DOMAIN webhook_logs, j \in DOMAIN webhookQueue :
         /\ webhook_logs[w].status = "pending" /\ webhook_logs[w].attempts = 4
         /\ webhook_logs[w].next_retry_at = 7200000
         /\ Cardinality(PostsOf(w)) = 4
         /\ webhookQueue[j].data.webhookLogId = w
         /\ webhookQueue[j].state = "delayed" /\ webhookQueue[j].delay = 7200000

\* a POST for log w was answered 2xx
Delivered(w) == \E i \in PostsOf(w) : posts[i].ok

\* log w, never retried manually, after n POSTs of which only the last may have
\* succeeded: attempts = n once the worker has written the outcome; after a 2xx the
\* log is success with the status received and has no job left
ChainOf(w) ==
    LET n == Cardinality(PostsOf(w))
        last == CHOOSE i \in PostsOf(w) : \A k \in PostsOf(w) : k <= i
    IN  /\ n <= MaxWebhookAttempts
        /\ webhook_logs[w].attempts = n
        /\ \A i \in PostsOf(w) : posts[i].ok => i = last
        /\ Delivered(w) =>
              /\ webhook_logs[w].status = "success"
              /\ Is2xx(webhook_logs[w].response_code)
              /\ LiveJobs(w) = {}
        /\ (~Delivered(w) /\ n \in 1 .. MaxWebhookAttempts - 1) =>
              webhook_logs[w].status = "pending"

\* the step is the end of a delivery of log w whose POST was answered with `code`
DeliversWith(w, code) ==
    \E j \in DOMAIN webhookQueue :
        /\ WebhookWorkerFinish(j, code)
        /\ webhookQueue[j].local.id = w

\* the step adds a delivery job that carries the id of log w
AddsJobFor(w) ==
    /\ Len(webhookQueue') = Len(webhookQueue) + 1
    /\ webhookQueue'[Len(webhookQueue')].data.webhookLogId = w

\* C29: if the first n-1 attempts for an event fail and the n-th attempt
\* (1 <= n <= 5) receives a 2xx response, the log ends with status = success,
\* attempts = n and response_code equal to the received status, the log was pending
\* with attempts = k after each earlier failed attempt k, and no delivery job for the
\* log is enqueued after the success. (A manual retry starts a new schedule and
\* makes the log pending again: the count is stated for logs never retried, and
\* "after the success" is while the log is success.)
C29_SuccessEndsChain ==
    /\ [](\A w \in DOMAIN webhook_logs : ~Retried(w) => ChainOf(w))
    /\ [][\A w \in DOMAIN webhook_logs, code \in ResponseCodes :
            (DeliversWith(w, code) /\ Is2xx(code)) =>
                webhook_logs'[w].response_code = code]_vars
    /\ [][\A w \in DOMAIN webhook_logs :
            webhook_logs[w].status = "success" => ~AddsJobFor(w)]_vars

\* the step is the end of a delivery of log w whose POST failed with `code` (a
\* non-2xx status, or 0 for a timeout or a connection error): the processor returned
\* (its job is completed), the log holds `code`, and below the ceiling a job that
\* carries the log's id was added
FailureReturns(w, code) ==
    \A j \in DOMAIN webhookQueue :
        (WebhookWorkerFinish(j, code) /\ webhookQueue[j].local.id = w) =>
            LET k == webhookQueue[j].local.webhookLog.attempts + 1
            IN  /\ webhookQueue'[j].state = "completed"
                /\ webhook_logs'[w].response_code = code
                /\ webhook_logs'[w].attempts = k
                /\ IF k < MaxWebhookAttempts
                   THEN AddsJobFor(w)
                   ELSE Len(webhookQueue') = Len(webhookQueue)

\* C31: a webhook-delivery job never ends in the queue's failed state because of a
\* delivery failure: for a non-2xx response, a timeout or a connection error the
\* worker returns normally after updating the log (response_code 0 for a transport
\* error) and, when attempts < 5, re-enqueueing itself; the queue's own retry never
\* fires for such a job.
C31_DeliveryFailureNeverThrows ==
    /\ [](\A j \in DOMAIN webhookQueue :
             /\ webhookQueue[j].state # "failed"
             /\ webhookQueue[j].attemptsMade > 0 => webhookQueue[j].state = "completed")
    /\ [][\A w \in DOMAIN webhook_logs, code \in ResponseCodes :
            ~Is2xx(code) => FailureReturns(w, code)]_vars

\* a POST met a transport error: the log is pending with response_code 0 and
\* attempts 1, the job that posted is completed and the job of the next attempt is
\* scheduled
C31_Witness ==
    \E w \in DOMAIN webhook_logs, j, n \in DOMAIN webhookQueue :
        /\ Cardinality(PostsOf(w)) = 1 /\ ~Delivered(w)
        /\ webhook_logs[w].status = "pending" /\ webhook_logs[w].attempts = 1
        /\ webhook_logs[w].response_code = 0
        /\ webhookQueue[j].data.webhookLogId = 0 /\ webhookQueue[j].state = "completed"
        /\ webhookQueue[n].data.webhookLogId = w /\ webhookQueue[n].state = "delayed"

\* the worker takes job j in this step
Takes(j) == webhookQueue[j].state = "waiting" /\ webhookQueue'[j].state # "waiting"

\* C32: when a webhook-delivery job runs and the merchant has no webhook_url at that
\* moment, the job completes as a no-op: no HTTP request is sent, no webhook log is
\* created, no existing log is modified, and no job is enqueued.
C32_NoUrlIsNoOp ==
    /\ [](\A j \in DOMAIN webhookQueue :
             webhookQueue[j].state = "active" =>
                 webhookQueue[j].local.merchant.webhook_url # NULL)
    /\ [][\A j \in DOMAIN webhookQueue :
            (Takes(j) /\ merchants[webhookQueue[j].data.merchantId].webhook_url = NULL) =>
                /\ webhookQueue'[j].state = "completed"
                /\ posts' = posts
                /\ webhook_logs' = webhook_logs
                /\ Len(webhookQueue') = Len(webhookQueue)
                /\ \A k \in DOMAIN webhookQueue \ {j} :
                       webhookQueue'[k] = webhookQueue[k]]_vars

\* a job ran while its merchant had no webhook_url: it is completed, without a log
\* and without a POST
C32_Witness ==
    /\ merchants["mA"].webhook_url = NULL
    /\ webhook_logs = << >> /\ posts = << >>
    /\ \E j \in DOMAIN webhookQueue :
         /\ webhookQueue[j].data.merchantId = "mA"
         /\ webhookQueue[j].state = "completed"
    /\ \A j \in DOMAIN webhookQueue : webhookQueue[j].state = "completed"

\* C39: once a webhook log has status success or failed, no webhook-delivery job
\* changes any of its fields (status, attempts, response_code, last_attempt_at); the
\* only operation that changes a terminal log is a manual retry, which moves it back
\* to pending.
C39_TerminalLogFrozen ==
    [][\A w \in DOMAIN webhook_logs :
        (Settled(w) /\ webhook_logs'[w] # webhook_logs[w]) =>
            /\ RetryResets(w)
            /\ webhook_logs'[w].status = "pending"]_vars

\* the jobs that a fan-out added: they carry no log id
EventJobs == {j \in DOMAIN webhookQueue : webhookQueue[j].data.webhookLogId = 0}

\* a log is inserted only when the worker takes a job without a log id for a merchant
\* with a webhook_url, and then exactly one, pending with attempts 0 and the job's
\* event and payload; a job that carries a log id inserts nothing and works on that row
OneInsertPerEvent ==
    /\ Len(webhook_logs') \in {Len(webhook_logs), Len(webhook_logs) + 1}
    /\ \A j \in DOMAIN webhookQueue :
         Takes(j) =>
            LET data == webhookQueue[j].data
            IN  IF data.webhookLogId = 0 /\ merchants[data.merchantId].webhook_url # NULL
                THEN /\ webhook_logs' = Append(webhook_logs,
                            WebhookLogRow(data.merchantId, data.event, data.payload))
                     /\ webhookQueue'[j].local.id = Len(webhook_logs')
                ELSE /\ webhook_logs' = webhook_logs
                     /\ webhookQueue'[j].state = "active" =>
                            webhookQueue'[j].local.id = data.webhookLogId
    /\ Len(webhook_logs') > Len(webhook_logs) =>
            \E j \in EventJobs : Takes(j)
    /\ \A j \in DOMAIN webhookQueue' \ DOMAIN webhookQueue :
         webhookQueue'[j].data.webhookLogId = 0 => Sends("test")

\* C40: exactly one webhook log is created per fanned-out event (a payment terminal
\* event, a refund.processed event or a test.webhook) that is delivered for a
\* merchant with a webhook_url: the first delivery job, which carries no log id,
\* inserts the log, and every worker-scheduled retry and every manual retry carries
\* that log's id and updates the same row instead of inserting another.
C40_OneLogPerEvent ==
    /\ [](/\ Len(webhook_logs) <= Cardinality(EventJobs)
          /\ \A j \in DOMAIN webhookQueue \ EventJobs :
                LET w == webhookQueue[j].data.webhookLogId
                IN  /\ w \in DOMAIN webhook_logs
                    /\ webhook_logs[w].event = webhookQueue[j].data.event
                    /\ webhook_logs[w].payload = webhookQueue[j].data.payload
          /\ \A i \in DOMAIN posts : posts[i].webhookLogId \in DOMAIN webhook_logs)
    /\ [][OneInsertPerEvent]_vars

\* one event was fanned out; its first attempt failed, the worker's retry posted
\* again and a manual retry was accepted: three jobs, one log
C40_Witness ==
    /\ Cardinality(EventJobs) = 1 /\ Len(webhook_logs) = 1
    /\ Cardinality(PostsOf(1)) >= 2
    /\ \E i \in DOMAIN resps : resps[i].op = "retry" /\ resps[i].status = 200 /\ resps[i].id = 1
    /\ Cardinality({j \in DOMAIN webhookQueue : webhookQueue[j].data.webhookLogId = 1}) >= 2

\* C9: a webhook log has status success if and only if its response_code is in 200..299.
C9_SuccessIff2xx ==
    \A w \in DOMAIN webhook_logs :
        webhook_logs[w].status = "success" <=> Is2xx(webhook_logs[w].response_code)

\* C9, amended: a successful log has a 2xx response_code, and a log with a 2xx
\* response_code that is not successful is one a manual retry has reset (pending,
\* attempts = 0) and that has not been attempted since.
C9_SuccessImplies2xx ==
    \A w \in DOMAIN webhook_logs :
        /\ webhook_logs[w].status = "success" => Is2xx(webhook_logs[w].response_code)
        /\ Is2xx(webhook_logs[w].response_code) /\ webhook_logs[w].status # "success"
             => /\ webhook_logs[w].status = "pending"
                /\ webhook_logs[w].attempts = 0
                /\ Retried(w)

\* a delivered log, and a delivered log that a manual retry has reset
C9_Witness ==
    \E w \in DOMAIN webhook_logs :
        /\ Is2xx(webhook_logs[w].response_code)
        /\ webhook_logs[w].status = "pending"

\* the steps of the retry handler. The UPDATE: the log of the caller gets attempts = 0
\* and status = pending, no other log and no queue changes, no log is added. The
\* add and the answer: one job more, waiting with no delay, with the log's id, event
\* and payload; 200 with status 'pending'; no row changes
RetryStep ==
    /\ \A s \in Slots :
         (reqs[s].op # "retry" /\ reqs'[s].op = "retry") =>
             LET id == reqs'[s].id
             IN  /\ Owned(webhook_logs, id, reqs'[s].m)
                 /\ Len(webhook_logs') = Len(webhook_logs)
                 /\ webhook_logs'[id].attempts = 0
                 /\ webhook_logs'[id].status = "pending"
                 /\ webhook_logs'[id].event = webhook_logs[id].event
                 /\ webhook_logs'[id].payload = webhook_logs[id].payload
                 /\ webhook_logs'[id].merchant_id = webhook_logs[id].merchant_id
                 /\ \A w \in DOMAIN webhook_logs : w # id => webhook_logs'[w] = webhook_logs[w]
                 /\ UNCHANGED <<merchants, orders, payments, refunds, idempotency_keys,
                                queues, resps>>
    /\ (Sends("retry") /\ Sent.status = 200) =>
             \E s \in Slots :
                 LET id == reqs[s].id
                     n == Len(webhookQueue')
                 IN  /\ reqs[s].op = "retry" /\ reqs'[s] = idle
                     /\ Sent.id = id /\ Sent.m = reqs[s].m
                     /\ Sent.body.id = id /\ Sent.body.status = "pending"
                     /\ n = Len(webhookQueue) + 1
                     /\ SubSeq(webhookQueue', 1, n - 1) = webhookQueue
                     /\ webhookQueue'[n].state = "waiting"
                     /\ webhookQueue'[n].delay = 0
                     /\ webhookQueue'[n].data.webhookLogId = id
                     /\ webhookQueue'[n].data.merchantId = reqs[s].m
                     /\ webhookQueue'[n].data.event = webhook_logs[id].event
                     /\ webhookQueue'[n].data.payload = webhook_logs[id].payload
                     /\ UNCHANGED <<store, paymentQueue, refundQueue>>
    /\ (Sends("retry") /\ Sent.status # 200) =>
             /\ Sent.status = 404
             /\ ~Owned(webhook_logs, Sent.target, Sent.m)
             /\ UNCHANGED <<store, queues>>

\* C20: a manual retry of a webhook log owned by the caller, whatever the log's
\* current status, sets attempts = 0 and status = pending, enqueues exactly one
\* webhook-delivery job with zero delay that carries that log's id, event and stored
\* payload, and returns 200 with status 'pending'; it creates no new log.
C20_ManualRetryResets == [][RetryStep]_vars

\* a log that had failed after its five attempts was retried: the answer is 200, the
\* log is pending with attempts = 0 and its job waits in the queue
C20_Witness ==
    \E i \in DOMAIN resps, j \in DOMAIN webhookQueue :
        /\ resps[i].op = "retry" /\ resps[i].status = 200
        /\ resps[i].was = "failed"
        /\ webhook_logs[resps[i].id].status = "pending"
        /\ webhook_logs[resps[i].id].attempts = 0
        /\ webhookQueue[j].state = "waiting"
        /\ webhookQueue[j].data.webhookLogId = resps[i].id

-----------------------------------------------------------------------------
(* Payment events: the payment worker and the webhook worker on a payment that *)
(* POST /api/v1/payments has just created.                                     *)

NextNotify ==
    \/ \E j \in DOMAIN paymentQueue : PaymentWorkerStart(j)
    \/ \E j \in DOMAIN paymentQueue, roll \in BOOLEAN, fault \in {"none", "store"} :
           PaymentWorkerUpdate(j, roll, fault)
    \/ \E j \in DOMAIN paymentQueue, fault \in {"none", "queue"} :
           PaymentWorkerEnqueue(j, fault)
    \/ \E j \in DOMAIN paymentQueue : PaymentJobPromote(j)
    \/ \E j \in DOMAIN webhookQueue : WebhookWorkerStart(j)
    \/ \E j \in DOMAIN webhookQueue, code \in ResponseCodes : WebhookWorkerFinish(j, code)
    \/ \E j \in DOMAIN webhookQueue : WebhookJobPromote(j)

SpecNotify == InitPay /\ [][NextNotify]_vars

PaymentEvents == {"payment.success", "payment.failed"}

\* the terminal status that a payment event names
NamedStatus(event) == IF event = "payment.success" THEN "success" ELSE "failed"

\* C17: whenever a payment.success or payment.failed webhook job for payment p is in
\* the webhook-delivery queue or has been delivered, the row of p has the terminal
\* status named by the event; no such event exists while p is pending.
C17_EventAfterTerminalStatus ==
    /\ \A j \in DOMAIN webhookQueue :
         webhookQueue[j].data.event \in PaymentEvents =>
             payments[webhookQueue[j].data.payload.id].status
                 = NamedStatus(webhookQueue[j].data.event)
    /\ \A i \in DOMAIN posts :
         posts[i].payload.event \in PaymentEvents =>
             payments[posts[i].payload.id].status = NamedStatus(posts[i].payload.event)

\* a payment event was delivered for a payment whose job ran more than once
C17_Witness ==
    \E i \in DOMAIN posts, j \in DOMAIN paymentQueue :
        /\ posts[i].payload.event \in PaymentEvents
        /\ paymentQueue[j].data.paymentId = posts[i].payload.id
        /\ paymentQueue[j].attemptsMade > 1
        /\ payments[posts[i].payload.id].status = NamedStatus(posts[i].payload.event)

\* the jobs that enqueueWebhook added for a terminal event of payment p (a
\* worker-scheduled redelivery of the same event carries a log id)
TerminalEventsOf(p) ==
    {j \in DOMAIN webhookQueue :
        /\ webhookQueue[j].data.event \in PaymentEvents
        /\ webhookQueue[j].data.webhookLogId = 0
        /\ webhookQueue[j].data.payload.id = p}

\* C36: for every payment, at most one terminal webhook event (payment.success or
\* payment.failed) is ever enqueued, never both, and the event that is enqueued names
\* the status that the payment row holds from then on; this holds when the
\* payment-processing job is re-executed by the queue.
C36_OneTerminalEvent ==
    \A p \in DOMAIN payments :
        /\ Cardinality(TerminalEventsOf(p)) <= 1
        /\ \A j \in TerminalEventsOf(p) :
               /\ payments[p].status = NamedStatus(webhookQueue[j].data.event)
               /\ \A k \in DOMAIN paymentQueue :
                      paymentQueue[k].data.paymentId = p =>
                          paymentQueue[k].state = "completed"

\* the job of a payment threw twice and returned on its third run: one terminal
\* event is in the queue and it names the row's status
C36_Witness ==
    \E p \in DOMAIN payments, k \in DOMAIN paymentQueue :
        /\ paymentQueue[k].data.paymentId = p
        /\ paymentQueue[k].attemptsMade = QueueAttempts
        /\ paymentQueue[k].state = "completed"
        /\ Cardinality(TerminalEventsOf(p)) = 1
        /\ \A j \in TerminalEventsOf(p) :
               payments[p].status = NamedStatus(webhookQueue[j].data.event)

-----------------------------------------------------------------------------
(* Payments from creation to their terminal status: POST /api/v1/payments and  *)
(* the payment worker, every store and queue call succeeding.                  *)

InitSettle ==
    /\ \E url \in {NULL, "u1"} :
         merchants = [Seeded EXCEPT !["mA"].webhook_url = url]
    /\ orders = <<OrderRow("mA", 1)>>
    /\ payments = << >>
    /\ refunds = << >>
    /\ webhook_logs = << >>
    /\ idempotency_keys = {}
    /\ paymentQueue = << >>
    /\ refundQueue = << >>
    /\ webhookQueue = << >>
    /\ \E pe \in ProcessEnvs : env = Configured(pe)
    /\ Quiet

NextSettle ==
    \/ \E s \in Slots, m \in MerchantIds, key \in {"", "k1"}, body \in PaymentBodies :
           Started("payment") < MaxSettleReqs /\ CreatePaymentBegin(s, m, key, body)
    \/ \E s \in Slots : CreatePaymentDelete(s)
    \/ \E s \in Slots : CreatePaymentOrder(s)
    \/ \E s \in Slots : CreatePaymentInsert(s)
    \/ \E s \in Slots : CreatePaymentEnqueue(s, FALSE)
    \/ \E s \in Slots : CreatePaymentStore(s)
    \/ \E j \in DOMAIN paymentQueue : PaymentWorkerStart(j)
    \/ \E j \in DOMAIN paymentQueue, roll \in BOOLEAN : PaymentWorkerUpdate(j, roll, "none")
    \/ \E j \in DOMAIN paymentQueue : PaymentWorkerEnqueue(j, "none")

SpecSettle == InitSettle /\ [][NextSettle]_vars

\* the payment worker is scheduled fairly: a job that can be taken is taken, and a
\* processor that can go on goes on
FairSettle ==
    /\ SpecSettle
    /\ WF_vars(\E j \in DOMAIN paymentQueue : PaymentWorkerStart(j))
    /\ WF_vars(\E j \in DOMAIN paymentQueue, roll \in BOOLEAN :
                   PaymentWorkerUpdate(j, roll, "none"))
    /\ WF_vars(\E j \in DOMAIN paymentQueue : PaymentWorkerEnqueue(j, "none"))

\* payment p was returned in a 201 of POST /api/v1/payments
Created(p) ==
    \E i \in DOMAIN resps :
        resps[i].op = "payment" /\ resps[i].status = 201 /\ resps[i].body.id = p

\* test mode with TEST_PAYMENT_SUCCESS not equal to 'false'
ForcedSuccess ==
    /\ env.process_env.TEST_MODE = "true"
    /\ env.process_env.TEST_PAYMENT_SUCCESS # "false"

PaymentSettled(p) ==
    /\ p \in DOMAIN payments
    /\ Terminal(payments[p].status)
    /\ ForcedSuccess => payments[p].status = "success"

\* C18: every payment created with a 201 response eventually leaves pending and
\* reaches success or failed, given a fairly scheduled payment worker and store and
\* queue calls that succeed; in test mode with TEST_PAYMENT_SUCCESS not equal to
\* 'false' the terminal status is always success.
C18_CreatedPaymentsSettle ==
    /\ [](ForcedSuccess => \A p \in DOMAIN payments : payments[p].status # "failed")
    /\ \A p \in 1 .. MaxSettleReqs : Created(p) ~> PaymentSettled(p)

\* in test mode with TEST_PAYMENT_SUCCESS unset, two payments answered 201 are success
C18_Witness ==
    /\ env.process_env.TEST_MODE = "true"
    /\ env.process_env.TEST_PAYMENT_SUCCESS = NULL
    /\ \E p, q \in DOMAIN payments :
         /\ p # q /\ Created(p) /\ Created(q)
         /\ payments[p].status = "success" /\ payments[q].status = "success"

-----------------------------------------------------------------------------
(* Refunds from creation to processed: a payment that has just been created,  *)
(* the payment worker, POST /api/v1/payments/:paymentId/refunds and the refund *)
(* worker, every store and queue call succeeding.                              *)

InitProcess ==
    /\ \E url \in {NULL, "u1"} :
         merchants = [Seeded EXCEPT !["mA"].webhook_url = url]
    /\ \E a \in 1 .. MaxAmount :
         /\ orders = <<OrderRow("mA", a)>>
         /\ payments = <<UpiPayment(1, "mA", a)>>
    /\ refunds = << >>
    /\ webhook_logs = << >>
    /\ idempotency_keys = {}
    /\ paymentQueue = <<NewJob([paymentId |-> 1], 3, 0)>>
    /\ refundQueue = << >>
    /\ webhookQueue = << >>
    /\ env = DefaultEnv
    /\ Quiet

NextProcess ==
    \/ \E j \in DOMAIN paymentQueue : PaymentWorkerStart(j)
    \/ \E j \in DOMAIN paymentQueue, roll \in BOOLEAN : PaymentWorkerUpdate(j, roll, "none")
    \/ \E j \in DOMAIN paymentQueue : PaymentWorkerEnqueue(j, "none")
    \/ \E s \in Slots, m \in MerchantIds, pid \in 1 .. Len(payments) + 1,
          amount \in RefundAmounts : CreateRefundGetPayment(s, m, pid, amount)
    \/ \E s \in Slots : CreateRefundSum(s)
    \/ \E s \in Slots : CreateRefundInsert(s)
    \/ \E s \in Slots : CreateRefundEnqueue(s)
    \/ \E j \in DOMAIN refundQueue : RefundWorkerStart(j)
    \/ \E j \in DOMAIN refundQueue : RefundWorkerFinish(j, "none")

SpecProcess == InitProcess /\ [][NextProcess]_vars

\* the refund worker is scheduled fairly
FairProcess ==
    /\ SpecProcess
    /\ WF_vars(\E j \in DOMAIN refundQueue : RefundWorkerStart(j))
    /\ WF_vars(\E j \in DOMAIN refundQueue : RefundWorkerFinish(j, "none"))

\* refund r was returned in a 201 of POST /api/v1/payments/:paymentId/refunds
RefundCreated(r) ==
    \E i \in DOMAIN resps :
        resps[i].op = "refund" /\ resps[i].status = 201 /\ resps[i].id = r

\* status processed, processed_at not NULL
Processed(r) ==
    /\ r \in DOMAIN refunds
    /\ refunds[r].status = "processed"
    /\ refunds[r].processed_at # -1

\* C19: every refund created with a 201 response eventually reaches status processed
\* with processed_at set, given a fairly scheduled refund worker and store and queue
\* calls that succeed.
C19_CreatedRefundsProcessed ==
    \A r \in 1 .. MaxRefundReqs : RefundCreated(r) ~> Processed(r)

\* two refunds of the payment were answered 201 and both are processed
C19_Witness ==
    \E r, q \in DOMAIN refunds :
        /\ r # q /\ RefundCreated(r) /\ RefundCreated(q)
        /\ Processed(r) /\ Processed(q)

-----------------------------------------------------------------------------
(* Merchant scoping: the store after one merchant (the owner) created an order, *)
(* paid it, asked for a refund and received the payment.success event; both     *)
(* merchants then address rows by id: the owner's and ids that do not exist.    *)

AddressedOps == {"get_order", "get_payment", "capture", "refund", "get_refund", "retry"}

\* the table an operation looks its id up in
TableOf(op) ==
    CASE op = "get_order" -> orders
      [] op \in {"get_payment", "capture", "refund"} -> payments
      [] op = "get_refund" -> refunds
      [] op = "retry" -> webhook_logs

\* the rows, jobs and POSTs after `owner` set a webhook_url, created an order, paid
\* it, asked for a refund of 1 and received the payment.success event
StoreOf(owner) ==
    LET event == EventJob(owner, "payment.success", 1)
        url == [Seeded EXCEPT ![owner].webhook_url = "u1"]
    IN  /\ merchants = url
        /\ orders = <<OrderRow(owner, MaxAmount)>>
        /\ payments = <<PaymentUpdate(UpiPayment(1, owner, MaxAmount), TRUE)>>
        /\ refunds = <<RefundRow(1, owner, 1)>>
        /\ webhook_logs =
             <<LogSuccess(WebhookLogRow(owner, "payment.success", event.data.payload),
                          200)>>
        /\ idempotency_keys = {}
        /\ paymentQueue = Complete(<<NewJob([paymentId |-> 1], 3, 0)>>, 1)
        /\ refundQueue = <<NewJob([refundId |-> 1], 3, 0)>>
        /\ webhookQueue = Complete(<<event>>, 1)
        /\ posts = <<[webhookLogId |-> 1, url |-> "u1",
                      secret |-> url[owner].webhook_secret,
                      payload |-> event.data.payload, ok |-> TRUE]>>

InitAccess ==
    /\ reqs = [s \in Slots |-> idle]
    /\ resps = << >>
    /\ now = 0
    /\ env = DefaultEnv
    /\ \E owner \in MerchantIds : StoreOf(owner)

NextAccess ==
    \/ /\ Arrived < MaxAccessReqs
       /\ \E s \in Slots, m \in MerchantIds :
            \/ \E id \in 1 .. Len(orders) + 1 : GetOrder(s, m, id)
            \/ \E id \in 1 .. Len(payments) + 1 : GetPayment(s, m, id)
            \/ \E id \in 1 .. Len(refunds) + 1 : GetRefund(s, m, id)
            \/ \E pid \in 1 .. Len(payments) + 1 : CaptureGetPayment(s, m, pid)
            \/ \E pid \in 1 .. Len(payments) + 1 : CreateRefundGetPayment(s, m, pid, 1)
            \/ \E id \in 1 .. Len(webhook_logs) + 1 : RetryWebhookReset(s, m, id)
    \/ \E s \in Slots : CaptureUpdate(s)
    \/ \E s \in Slots : CreateRefundSum(s)
    \/ \E s \in Slots : CreateRefundInsert(s)
    \/ \E s \in Slots : CreateRefundEnqueue(s)
    \/ \E s \in Slots : RetryWebhookEnqueue(s)

SpecAccess == InitAccess /\ [][NextAccess]_vars

\* the row a request addressed exists and belongs to another merchant
Foreign(op, target, m) ==
    target \in DOMAIN TableOf(op) /\ TableOf(op)[target].merchant_id # m

\* no row has the id a request addressed
Missing(op, target) == target \notin DOMAIN TableOf(op)

\* the id an in-flight request addressed
Addressed(r) == IF r.op = "retry" THEN r.id ELSE r.pid

\* the answers to requests for another merchant's row: each is 404 NOT_FOUND and equal
\* to every answer of the same operation to an id that does not exist
ForeignAnswers404 ==
    \A i \in DOMAIN resps :
        (resps[i].op \in AddressedOps /\ Foreign(resps[i].op, resps[i].target, resps[i].m))
          => /\ resps[i].status = 404
             /\ resps[i].code = "NOT_FOUND"
             /\ \A j \in DOMAIN resps :
                  (resps[j].op = resps[i].op /\ Missing(resps[j].op, resps[j].target))
                    => /\ resps[j].status = resps[i].status
                       /\ resps[j].code = resps[i].code
                       /\ resps[j].description = resps[i].description

\* no handler goes on past its lookup with another merchant's row
NoForeignInFlight ==
    \A s \in Slots :
        reqs[s].op \in AddressedOps => Owned(TableOf(reqs[s].op), Addressed(reqs[s]), reqs[s].m)

\* the step that answers a request for another merchant's row changes no row and no queue
ForeignAnswerChangesNothing ==
    (/\ Len(resps') = Len(resps) + 1
     /\ resps'[Len(resps')].op \in AddressedOps
     /\ Foreign(resps'[Len(resps')].op, resps'[Len(resps')].target, resps'[Len(resps')].m))
      => UNCHANGED <<store, queues>>

\* C10: for get order, get payment, capture, create refund, get refund and retry
\* webhook, a request for a row of another merchant is answered 404 NOT_FOUND, the
\* same answer as for an id that does not exist, and changes no row and no queue.
C10_ForeignIsNotFound ==
    /\ [](ForeignAnswers404 /\ NoForeignInFlight)
    /\ [][ForeignAnswerChangesNothing]_vars

\* a capture and a retry of another merchant's row have been answered, and so has a
\* capture of an id that does not exist
C10_Witness ==
    /\ \E i, j \in DOMAIN resps :
         /\ resps[i].op = "capture" /\ Foreign("capture", resps[i].target, resps[i].m)
         /\ resps[j].op = "capture" /\ Missing("capture", resps[j].target)
    /\ \E i \in DOMAIN resps :
         resps[i].op = "retry" /\ Foreign("retry", resps[i].target, resps[i].m)

-----------------------------------------------------------------------------
(* Pagination: the four list routes with ?limit= and ?offset=.                *)

\* absent, a count, zero, a negative number, a word, digits followed by a letter
QueryValues == {NULL, <<"2">>, <<"0">>, <<"-", "1">>, <<"a", "b">>, <<"1", "a">>}

ListOps == {"list_orders", "list_payments", "list_refunds", "list_webhooks"}

ListTable(op) ==
    CASE op = "list_orders" -> orders
      [] op = "list_payments" -> payments
      [] op = "list_refunds" -> refunds
      [] op = "list_webhooks" -> webhook_logs

InitList ==
    /\ merchants = Seeded
    /\ orders = <<OrderRow("mA", 1), OrderRow("mB", 1), OrderRow("mA", MaxAmount),
                  OrderRow("mA", 1)>>
    /\ payments = <<PaymentUpdate(UpiPayment(1, "mA", 1), TRUE), UpiPayment(3, "mA", MaxAmount)>>
    /\ refunds = <<RefundRow(1, "mA", 1)>>
    /\ webhook_logs = << >>
    /\ idempotency_keys = {}
    /\ paymentQueue = <<Complete(<<NewJob([paymentId |-> 1], 3, 0)>>, 1)[1],
                        NewJob([paymentId |-> 2], 3, 0)>>
    /\ refundQueue = <<NewJob([refundId |-> 1], 3, 0)>>
    /\ webhookQueue = << >>
    /\ env = DefaultEnv
    /\ Quiet

NextList ==
    /\ Arrived < MaxListReqs
    /\ \E s \in Slots, m \in MerchantIds, op \in ListOps, limit, offset \in QueryValues :
           List(s, op, m, ListTable(op), [limit |-> limit, offset |-> offset])

SpecList == InitList /\ [][NextList]_vars

\* the value is a negative number or has no number at its start
NegativeOrNonNumeric(raw) ==
    raw # NULL /\ (raw = << >> \/ Head(raw) = "-" \/ ~IsDigit(Head(raw)))

\* C24: for the four list operations (orders, payments, refunds, webhook logs), an
\* absent limit yields limit = 10 and an absent offset yields offset = 0, and a
\* negative or non-numeric limit or offset is replaced by that default, so the
\* effective limit is always >= 1, the effective offset is always >= 0, and the
\* request returns 200.
C24_PaginationDefaults ==
    \A i \in DOMAIN resps :
        resps[i].op \in ListOps =>
            /\ resps[i].status = 200
            /\ resps[i].limit >= 1 /\ resps[i].offset >= 0
            /\ resps[i].query.limit = NULL => resps[i].limit = 10
            /\ resps[i].query.offset = NULL => resps[i].offset = 0
            /\ NegativeOrNonNumeric(resps[i].query.limit) => resps[i].limit = 10
            /\ NegativeOrNonNumeric(resps[i].query.offset) => resps[i].offset = 0

-----------------------------------------------------------------------------
(* Authentication: requests with every combination of absent, empty, matching  *)
(* and mismatched X-Api-Key / X-Api-Secret for every route behind the          *)
(* middleware, and the two routes without it.                                  *)

\* the routes registered with authenticateMerchant
AuthRoutes ==
    {"order", "get_order", "payment", "get_payment", "capture", "refund", "get_refund",
     "list_webhooks", "retry", "webhook_url", "profile", "regenerate", "test",
     "list_orders", "list_payments", "list_refunds"}

ApiKeys == {NULL, "", "kA", "kB"}
ApiSecrets == {NULL, "", "sA", "sB"}

\* next(): the handler of the route runs for req.merchant
Handle(s) ==
    /\ reqs[s].pc = "next"
    /\ LET m == reqs[s].merchant
           route == reqs[s].route
       IN  \/ route = "order" /\ \E amount \in {0, 1} : CreateOrder(s, m, amount)
           \/ route = "get_order" /\ GetOrder(s, m, 1)
           \/ route = "payment" /\ CreatePaymentBegin(s, m, "", Upi(1, "v1"))
           \/ route = "get_payment" /\ GetPayment(s, m, 1)
           \/ route = "capture" /\ CaptureGetPayment(s, m, 1)
           \/ route = "refund" /\ CreateRefundGetPayment(s, m, 1, 1)
           \/ route = "get_refund" /\ GetRefund(s, m, 1)
           \/ route = "list_webhooks" /\ List(s, "list_webhooks", m, webhook_logs, NoQuery)
           \/ route = "retry" /\ RetryWebhookReset(s, m, 1)
           \/ route = "webhook_url" /\ UpdateWebhookUrl(s, m, "u1")
           \/ route = "profile" /\ GetProfile(s, m)
           \/ route = "regenerate" /\ RegenerateSecret(s, m, "whsec_new")
           \/ route = "test" /\ TestWebhook(s, m)
           \/ route = "list_orders" /\ List(s, "list_orders", m, orders, NoQuery)
           \/ route = "list_payments" /\ List(s, "list_payments", m, payments, NoQuery)
           \/ route = "list_refunds" /\ List(s, "list_refunds", m, refunds, NoQuery)

InitAuth ==
    /\ reqs = [s \in Slots |-> idle]
    /\ resps = << >>
    /\ now = 0
    /\ env = DefaultEnv
    /\ StoreOf("mA")

NextAuth ==
    \/ /\ Arrived < MaxAuthReqs
       /\ \E s \in Slots :
            \/ \E route \in AuthRoutes, apiKey \in ApiKeys, apiSecret \in ApiSecrets :
                   Arrive(s, route, apiKey, apiSecret)
            \/ Health(s)
            \/ JobsStatus(s)
    \/ \E s \in Slots : Authenticate(s)
    \/ \E s \in Slots : Handle(s)
    \/ \E s \in Slots : CreatePaymentOrder(s)
    \/ \E s \in Slots : CreatePaymentInsert(s)
    \/ \E s \in Slots : CreatePaymentEnqueue(s, FALSE)
    \/ \E s \in Slots : CaptureUpdate(s)
    \/ \E s \in Slots : CreateRefundSum(s)
    \/ \E s \in Slots : CreateRefundInsert(s)
    \/ \E s \in Slots : CreateRefundEnqueue(s)
    \/ \E s \in Slots : RetryWebhookEnqueue(s)

SpecAuth == InitAuth /\ [][NextAuth]_vars

\* the headers do not authenticate: one is absent or empty, or no merchant row has
\* this key together with this secret
BadCredentials(apiKey, apiSecret) ==
    \/ apiKey \in {NULL, ""}
    \/ apiSecret \in {NULL, ""}
    \/ ~\E m \in DOMAIN merchants :
           merchants[m].api_key = apiKey /\ merchants[m].api_secret = apiSecret

\* a handler runs only for a request whose headers match its merchant's row
HandlerRunsAuthenticated ==
    \A s \in Slots :
        reqs[s].pc = "next" =>
            /\ ~BadCredentials(reqs[s].apiKey, reqs[s].apiSecret)
            /\ merchants[reqs[s].merchant].api_key = reqs[s].apiKey
            /\ merchants[reqs[s].merchant].api_secret = reqs[s].apiSecret

\* the routes without the middleware answer 200
OpenRoutesAnswer200 ==
    \A i \in DOMAIN resps : resps[i].op \in {"health", "jobs_status"} => resps[i].status = 200

\* the step of the middleware: bad headers end the request with 401 UNAUTHORIZED and
\* change no row and no queue; good ones hand the request to the handler
MiddlewareStep ==
    \A s \in Slots :
        (reqs[s].pc = "auth" /\ reqs'[s] # reqs[s]) =>
            IF BadCredentials(reqs[s].apiKey, reqs[s].apiSecret)
            THEN /\ reqs'[s] = idle
                 /\ Len(resps') = Len(resps) + 1
                 /\ resps'[Len(resps')].op = reqs[s].route
                 /\ resps'[Len(resps')].status = 401
                 /\ resps'[Len(resps')].code = "UNAUTHORIZED"
                 /\ UNCHANGED <<store, queues>>
            ELSE reqs'[s].pc = "next" /\ UNCHANGED resps

-----------------------------------------------------------------------------
(* The queues' retry policy: a payment job and a refund job as the routes    *)
(* add them ({attempts: 3, backoff: {type: 'exponential', delay: 1000}}),    *)
(* and workers whose database and queue calls may reject.                    *)

InitQueues ==
    /\ \E url \in {NULL, "u1"} :
         merchants = [Seeded EXCEPT !["mA"].webhook_url = url]
    /\ orders = <<OrderRow("mA", 1), OrderRow("mA", MaxAmount)>>
    /\ payments = <<UpiPayment(1, "mA", 1),
                    PaymentUpdate(UpiPayment(2, "mA", MaxAmount), TRUE)>>
    /\ refunds = <<RefundRow(2, "mA", 1)>>
    /\ webhook_logs = << >>
    /\ idempotency_keys = {}
    /\ paymentQueue = <<NewJob([paymentId |-> 1], QueueAttempts, 0)>>
    /\ refundQueue = <<NewJob([refundId |-> 1], QueueAttempts, 0)>>
    /\ webhookQueue = << >>
    /\ env = DefaultEnv
    /\ Quiet

NextQueues ==
    \/ \E j \in DOMAIN paymentQueue : PaymentWorkerStart(j)
    \/ \E j \in DOMAIN paymentQueue, roll \in BOOLEAN, fault \in {"none", "store"} :
           PaymentWorkerUpdate(j, roll, fault)
    \/ \E j \in DOMAIN paymentQueue, fault \in {"none", "queue"} :
           PaymentWorkerEnqueue(j, fault)
    \/ \E j \in DOMAIN paymentQueue : PaymentJobPromote(j)
    \/ \E j \in DOMAIN refundQueue : RefundWorkerStart(j)
    \/ \E j \in DOMAIN refundQueue, fault \in {"none", "store", "queue"} :
           RefundWorkerFinish(j, fault)
    \/ \E j \in DOMAIN refundQueue : RefundJobPromote(j)

SpecQueues == InitQueues /\ [][NextQueues]_vars

\* job j of queue q was running and its processor threw in this step; the job has
\* been retried q[j].attemptsMade times before
Threw(q, qn, j) == q[j].state = "active" /\ qn[j].state \in {"delayed", "failed"}

\* a throw after fewer than 3 retries schedules the next retry, the k-th retry with
\* a delay of 1000 * 2^(k-1) ms (1 s, 2 s, 4 s); the job is failed only when 3
\* retries have been made; a job that completed stays completed
RetryPolicy(q, qn) ==
    \A j \in DOMAIN q :
        /\ Threw(q, qn, j) =>
              IF q[j].attemptsMade < QueueAttempts
              THEN /\ qn[j].state = "delayed"
                   /\ qn[j].delay = Backoff(q[j].attemptsMade + 1)
              ELSE qn[j].state = "failed"
        /\ q[j].state = "completed" => qn[j] = q[j]

\* C30: a payment-processing or refund-processing job whose worker throws is
\* retried by the queue up to 3 times, with delays of 1 s, 2 s and 4 s before the
\* successive retries, and is counted as failed only after those retries are
\* exhausted; a job whose worker returns normally is never retried.
C30_QueueRetryPolicy ==
    [][RetryPolicy(paymentQueue, paymentQueue') /\ RetryPolicy(refundQueue, refundQueue')]_vars

-----------------------------------------------------------------------------
(* Creation with a queue that may reject: POST /api/v1/payments whose         *)
(* paymentQueue.add can fail, and the payment worker.                         *)

NextEnqueue ==
    \/ \E s \in Slots, m \in MerchantIds, key \in {"", "k1"}, body \in PaymentBodies :
           Started("payment") < MaxCreateReqs /\ CreatePaymentBegin(s, m, key, body)
    \/ \E s \in Slots : CreatePaymentDelete(s)
    \/ \E s \in Slots : CreatePaymentOrder(s)
    \/ \E s \in Slots : CreatePaymentInsert(s)
    \/ \E s \in Slots, fault \in BOOLEAN : CreatePaymentEnqueue(s, fault)
    \/ \E s \in Slots : CreatePaymentStore(s)
    \/ \E j \in DOMAIN paymentQueue : PaymentWorkerStart(j)
    \/ \E j \in DOMAIN paymentQueue, roll \in BOOLEAN : PaymentWorkerUpdate(j, roll, "none")

SpecEnqueue == InitIdem /\ [][NextEnqueue]_vars

\* the jobs of the payment queue that name payment p
JobsOf(p) == {j \in DOMAIN paymentQueue : paymentQueue[j].data.paymentId = p}

\* the request in slot s has inserted its row and ends in this step without a job
\* added: paymentQueue.add rejected
EnqueueFails(s) ==
    /\ reqs[s].op = "payment" /\ reqs[s].pc = "enqueue"
    /\ reqs'[s] = idle
    /\ paymentQueue' = paymentQueue

\* the answer to a failed enqueue is 500 INTERNAL_ERROR, and the step writes nothing
EnqueueFailureIs500 ==
    \A s \in Slots :
        EnqueueFails(s) =>
            LET a == resps'[Len(resps')]
            IN  /\ Len(resps') = Len(resps) + 1
                /\ a.op = "payment" /\ a.made = reqs[s].paymentId /\ a.key = reqs[s].key
                /\ a.status = 500 /\ a.code = "INTERNAL_ERROR"
                /\ payments' = payments
                /\ payments[reqs[s].paymentId].status = "pending"
                /\ idempotency_keys' = idempotency_keys

\* a row whose request was answered 500 and that has no job is pending, and no
\* idempotency record holds it
StuckRowStaysPending ==
    \A i \in DOMAIN resps :
        (resps[i].op = "payment" /\ resps[i].status = 500 /\ resps[i].made # 0
            /\ JobsOf(resps[i].made) = {}) =>
            /\ resps[i].made \in DOMAIN payments
            /\ payments[resps[i].made].status = "pending"
            /\ \A k \in idempotency_keys : k.response.id # resps[i].made

\* C33: if enqueueing the payment-processing job fails after the payment row has
\* been inserted, the create-payment request returns 500 INTERNAL_ERROR, the payment
\* row stays in the store with status pending and no job, and no idempotency record
\* is written for the request's key.
C33_FailedEnqueueLeavesPendingRow ==
    /\ []StuckRowStaysPending
    /\ [][EnqueueFailureIs500]_vars

\* a request with key k1 was answered 500 after its row was inserted: the row is
\* pending without a job and k1 has no record, while the payment of another request
\* has been processed
C33_Witness ==
    \E i \in DOMAIN resps, q \in DOMAIN payments :
        /\ resps[i].op = "payment" /\ resps[i].status = 500 /\ resps[i].key = "k1"
        /\ resps[i].made \in DOMAIN payments
        /\ JobsOf(resps[i].made) = {}
        /\ payments[resps[i].made].status = "pending"
        /\ idempotency_keys = {}
        /\ q # resps[i].made /\ Terminal(payments[q].status)

-----------------------------------------------------------------------------
(* The life of a refund: a payment that has just been created for a merchant  *)
(* with a webhook_url, a payment worker whose enqueueWebhook may reject (the  *)
(* queue then runs the job again), create-refund requests and the refund      *)
(* worker.                                                                    *)

InitRefundLife ==
    /\ merchants = [Seeded EXCEPT !["mA"].webhook_url = "u1"]
    /\ orders = <<OrderRow("mA", MaxAmount)>>
    /\ payments = <<UpiPayment(1, "mA", MaxAmount)>>
    /\ refunds = << >>
    /\ webhook_logs = << >>
    /\ idempotency_keys = {}
    /\ paymentQueue = <<NewJob([paymentId |-> 1], QueueAttempts, 0)>>
    /\ refundQueue = << >>
    /\ webhookQueue = << >>
    /\ env = DefaultEnv
    /\ Quiet

NextRefundLife ==
    \/ \E j \in DOMAIN paymentQueue : PaymentWorkerStart(j)
    \/ \E j \in DOMAIN paymentQueue, roll \in BOOLEAN : PaymentWorkerUpdate(j, roll, "none")
    \/ \E j \in DOMAIN paymentQueue, fault \in {"none", "queue"} :
           PaymentWorkerEnqueue(j, fault)
    \/ \E j \in DOMAIN paymentQueue : PaymentJobPromote(j)
    \/ \E s \in Slots : CreateRefundGetPayment(s, "mA", 1, 1)
    \/ \E s \in Slots : CreateRefundSum(s)
    \/ \E s \in Slots : CreateRefundInsert(s)
    \/ \E s \in Slots : CreateRefundEnqueue(s)
    \/ \E j \in DOMAIN refundQueue : RefundWorkerStart(j)
    \/ \E j \in DOMAIN refundQueue, fault \in {"none", "store"} : RefundWorkerFinish(j, fault)
    \/ \E j \in DOMAIN refundQueue : RefundJobPromote(j)

SpecRefundLife == InitRefundLife /\ [][NextRefundLife]_vars

\* a refund's status changes only from pending to processed
RefundOnlyProcessed ==
    \A r \in DOMAIN refunds :
        refunds'[r].status # refunds[r].status =>
            refunds[r].status = "pending" /\ refunds'[r].status = "processed"

\* the refund worker takes job j in this step
TakesRefundJob(j) == refundQueue[j].state = "waiting" /\ refundQueue'[j].state # "waiting"

\* a refund job taken while the payment of its refund is not success ends there:
\* the job is completed, no refund changes and no event is enqueued
UnrefundableLeftAlone ==
    \A j \in DOMAIN refundQueue :
        (/\ TakesRefundJob(j)
         /\ payments[refunds[refundQueue[j].data.refundId].payment_id].status # "success") =>
            /\ refundQueue'[j].state = "completed"
            /\ refunds' = refunds
            /\ webhookQueue' = webhookQueue

\* C34: a refund's status changes only from pending to processed and never back,
\* and in every reachable state processed_at is set if and only if status =
\* processed; the refund worker leaves a refund untouched when its payment is not in
\* status success.
C34_RefundLifecycle ==
    /\ [](\A r \in DOMAIN refunds :
             /\ refunds[r].status \in {"pending", "processed"}
             /\ refunds[r].processed_at # -1 <=> refunds[r].status = "processed")
    /\ [][RefundOnlyProcessed /\ UnrefundableLeftAlone]_vars

\* one refund is processed, with processed_at; the job of another was taken after
\* the payment had gone from success to failed, and that refund is pending with its
\* job completed
C34_Witness ==
    /\ payments[1].status = "failed"
    /\ \E r, q \in DOMAIN refunds, j \in DOMAIN refundQueue :
         /\ refunds[r].status = "processed" /\ refunds[r].processed_at # -1
         /\ refunds[q].status = "pending" /\ refunds[q].processed_at = -1
         /\ refundQueue[j].data.refundId = q /\ refundQueue[j].state = "completed"

====
